---- MODULE Spec2Model ----
(***************************************************************************)
(* Model of the cat-feeder firmware: the feeding controller                *)
(* (firmware/cat-feeder/src/fsm.cpp, class StateMachine) together with the *)
(* load-cell sampler it owns (firmware/cat-feeder/src/loadcell.cpp, class  *)
(* Loadcell).                                                              *)
(*                                                                         *)
(* Representation.                                                         *)
(*  - The StateMachine object is the record `fsm`; its Loadcell member is  *)
(*    the nested record fsm.loadcell.  Field names are the source's.       *)
(*  - Weights are float grams in the source; here they are integers in     *)
(*    micrograms (ug), so 9.0f is 9000000.  Gains are ug per raw count.    *)
(*  - The millis_since_* timers are unsigned long in the source and are    *)
(*    only ever compared with fixed thresholds (and the two read timers    *)
(*    with each other).  They are kept saturated just above the largest    *)
(*    threshold each is compared with, which preserves every comparison    *)
(*    the code makes.                                                      *)
(*  - uint16_t counters wrap modulo 2^16.                                  *)
(***************************************************************************)
EXTENDS Integers, Sequences, FiniteSets, TLC

VARIABLES
    fsm,        \* the StateMachine object (main.cpp: StateMachine fsm)
    hx711,      \* the signal the HX711 delivers during the current session
    pin_motor,  \* level last written to PIN_MOTOR
    last_call,  \* history: the method called last, its argument, and the
                \* state and mode it was called in
    low_streak, \* history: completed feeds at or below the jam weight in a row
    since_end,  \* history: how the last feed attempt ended, and the time
                \* that has passed in calls of update() since then
    limit_seen, \* history: the level of PIN_LIMIT read by the last call of
                \* update(), and the time since a call read the other level
    clock,      \* millis(), and the time that has really passed between the
                \* last two calls of update()
    motor_on,   \* history: for how long PIN_MOTOR has been high without a
                \* break, whether that run of the motor began in limp mode,
                \* and the longest time between two calls of update() in it
    pc,         \* position inside update(): outside it, or in the deficit loop
    hw,         \* the condition of the hardware during this run
    budget,     \* calls the run may still make: commands, or calls of
                \* update() where a specification counts those
    pauses      \* long pauses (BigMs) that may still pass in Idle

vars == <<fsm, hx711, pin_motor, last_call, low_streak, since_end,
          limit_seen, clock, motor_on, pc, hw, budget, pauses>>

----------------------------------------------------------------------------
(* Program constants.                                                      *)

NUM_SAMPLES == 32
GAIN_RESERVOIR == -2053
GAIN_BOWL == 3227
TARE_RESERVOIR_BEGIN == -754589
TARE_BOWL_BEGIN == 31485

FEED_MAX_RETRIES == 3
FEED_RUN_TIMEOUT_MILLIS == 3000
FEED_RUN_LIMP_MILLIS == 2000
FEED_RUN_POST_MILLIS == 10
FEED_TO_MEASURE_MILLIS == 800
FEED_COOLDOWN_MILLIS == 300000
FEED_ASSUMED_WEIGHT_GRAMS == 9000000
FEED_MAX_DISAGREE_GRAMS == 5000000
FEED_JAM_WEIGHT == (FEED_ASSUMED_WEIGHT_GRAMS * 3) \div 10
FEED_MIN_REASONABLE == -2000000
FEED_MAX_REASONABLE == FEED_ASSUMED_WEIGHT_GRAMS * 3
STDDEV_LIMIT == 1000000
STATE_MAX_RETRIES == 5
SETTLE_MILLIS == 2000
DEBOUNCE_MILLIS == 50
LOADCELL_TIMEOUT_MILLIS == 10000
SENSOR_READ_COOLDOWN == 300000
RESERVOIR_LOW_GRAMS == 250000000
MS_PER_DAY_MG == 86400
GRAMS_PER_DAY_DEFAULT == 60
deficit_threshold_mg == 0
UINT16 == 65536
INT32_MIN == -2147483647 - 1

----------------------------------------------------------------------------
(* Bounds of the model.                                                    *)

\* Tick lengths (delta_millis): the time that passes while a state waits for
\* a deadline, and while Idle waits for the next feed or refresh.
StepMs == 4320
BigMs == 302400
\* Long pauses in Idle in one run.
MaxPauses == 1
\* The same two bounds for the runs with working hardware.
MaxOperatorCommands == 2
MaxOperatorPauses == 3
\* Calls (commands and update()) in a run that follows the deficit loop.
MaxAccrueCalls == 5
\* Calls of update() within which a run from any state must be back in Idle.
MaxLiveTicks == 160
\* Cap on the iterations of the deficit loop followed step by step.
MaxLoopIters == 4
\* Commands issued in one run.
MaxCommands == 1
\* Calls of start() and set_tare_raw() in a run of the sampler on its own.
MaxSamplerCalls == 3
\* The same two bounds for the runs with a noisy load cell.
MaxNoisyCommands == 4
MaxNoisyPauses == 1
\* Tick lengths of the runs that follow the motor: ticks within the
\* debounce time right after a change of state, and ticks of a second.
FineMs == 30
CoarseMs == 1000
\* The runs that follow the deficit over a day: calls of update() in one
\* run, and the time they may add up to.
MaxDripTicks == 5
DripMs == 86400000
\* Calls of update() in a run that takes millis() over its wrap.
MaxWrapTicks == 4

\* Arguments of adjust_deficit() and set_grams_per_day().
AdjustChoices == {-9000, 9000}
GramsChoices == {60, 120}
\* The same for the runs that follow the deficit loop; delta_millis too.
AccrueGrams == {60, 43200, 86400, 86401}
AccrueDeltas == {0, 1, 2}
\* delta_millis of every call in the runs that must come back to Idle.
LiveMs == 288

ErrorFlagNames == {"error_reservoir_stddev", "error_bowl_stddev",
                   "error_loadcell_timeout", "error_loadcell_disagree",
                   "error_loadcell_unreasonable", "error_limit_switch",
                   "error_power_loss"}

States == {"IDLE", "IDLE_TARE_RESERVOIR_WAIT", "IDLE_TARE_RESERVOIR",
           "IDLE_TARE_BOWL", "IDLE_MEASURE_RESERVOIR", "IDLE_MEASURE_BOWL",
           "FEED_PRE_MEASURE_WAIT", "FEED_PRE_MEASURE_RESERVOIR",
           "FEED_PRE_MEASURE_BOWL", "FEED_RUN_SYNC", "FEED_RUN_A",
           "FEED_RUN_B", "FEED_RUN_C", "FEED_POST_WAIT",
           "FEED_POST_MEASURE_BOWL", "FEED_POST_MEASURE_RESERVOIR"}

RunStates == {"FEED_RUN_SYNC", "FEED_RUN_A", "FEED_RUN_B", "FEED_RUN_C"}

----------------------------------------------------------------------------
(* Arithmetic helpers.                                                     *)

Abs(x) == IF x < 0 THEN -x ELSE x

\* C++ integer division: truncation toward zero.
TruncDiv(a, b) ==
    IF (a >= 0 /\ b > 0) \/ (a <= 0 /\ b < 0)
    THEN Abs(a) \div Abs(b)
    ELSE -(Abs(a) \div Abs(b))

\* unsigned long is 32 bits wide on the ESP32.  A value is kept as its two
\* 16-bit halves, hi * 65536 + lo.
WORD16 == 65536

U32(n) == [hi |-> n \div WORD16, lo |-> n % WORD16]

\* a + n in unsigned long, for 0 <= n < 2^31.
U32Add(a, n) ==
    LET sum == a.lo + n
    IN  [hi |-> (a.hi + sum \div WORD16) % WORD16, lo |-> sum % WORD16]

\* The difference of two counter values as it would be if it were taken
\* as 0 when the counter reads less than before.
U32SubClamped(a, b) ==
    IF a.hi < b.hi \/ (a.hi = b.hi /\ a.lo < b.lo) THEN U32(0)
    ELSE [hi |-> a.hi - b.hi - (IF a.lo < b.lo THEN 1 ELSE 0),
          lo |-> (a.lo - b.lo) % WORD16]

\* a - b in unsigned long: the difference modulo 2^32.
U32Sub(a, b) ==
    [hi |-> (a.hi - b.hi - (IF a.lo < b.lo THEN 1 ELSE 0)) % WORD16,
     lo |-> (a.lo - b.lo) % WORD16]

\* static_cast<int32_t>(d)
ToInt32(d) ==
    IF d.hi >= WORD16 \div 2 THEN (d.hi - WORD16) * WORD16 + d.lo
    ELSE d.hi * WORD16 + d.lo

\* The largest r in lo .. hi - 1 with r * r <= n, where lo * lo <= n.
RECURSIVE ISqrtBetween(_, _, _)
ISqrtBetween(n, lo, hi) ==
    IF hi - lo <= 1 THEN lo
    ELSE LET mid == (lo + hi) \div 2
         IN  IF mid * mid <= n THEN ISqrtBetween(n, mid, hi)
             ELSE ISqrtBetween(n, lo, mid)

\* A power of two r with r * r <= n < (2 * r) * (2 * r), for n >= 1.
RECURSIVE ISqrtLow(_, _)
ISqrtLow(n, r) == IF (2 * r) * (2 * r) > n THEN r ELSE ISqrtLow(n, 2 * r)

\* floor(sqrt(n))
ISqrt(n) ==
    IF n <= 0 THEN 0
    ELSE LET r == ISqrtLow(n, 1) IN ISqrtBetween(n, r, 2 * r)

RECURSIVE SumSeq(_)
SumSeq(q) == IF q = <<>> THEN 0 ELSE Head(q) + SumSeq(Tail(q))

RECURSIVE SumSqDev(_, _)
SumSqDev(q, m) ==
    IF q = <<>> THEN 0
    ELSE (Head(q) - m) * (Head(q) - m) + SumSqDev(Tail(q), m)

\* A timer advanced by d and kept at most cap.
SatAdd(t, d, cap) == IF t >= cap - d THEN cap ELSE t + d

TransCap == LOADCELL_TIMEOUT_MILLIS + 1
FeedCap == FEED_COOLDOWN_MILLIS
ReadCap == SENSOR_READ_COOLDOWN + 2
RunCap == 2 * BigMs

----------------------------------------------------------------------------
(* The HX711 as the sampler sees it.  During one sampling session the      *)
(* signal is stationary: a level with an alternating disturbance of fixed  *)
(* amplitude, delivered whenever the sampler asks (alive), or no reading   *)
(* at all (hx711.is_ready() stays false).  A new signal may appear         *)
(* whenever a session is started.                                          *)

ReservoirLevels == {-998135, -993751}   \* about 500 g and 491 g
BowlLevels == {34584, 37373}            \* about 10 g and 19 g
NoiseLevels == {0, 600}                 \* raw counts; 600 is above 1 g

DeadSignal == [level |-> 0, noise |-> 0, alive |-> FALSE]

\* Hardware conditions: everything works; a load cell picks up noise now and
\* then; the HX711 does not answer; the limit switch is unreliable.
HwConditions == {"good", "noisy", "dead", "switch"}

\* The raw levels a session started on entry to state `st` may see.  The
\* weight on a cell differs from the weight before only after the motor ran.
Levels(st) ==
    CASE st = "FEED_POST_MEASURE_RESERVOIR" -> ReservoirLevels
      [] st = "FEED_POST_MEASURE_BOWL" -> BowlLevels
      [] st \in {"IDLE_TARE_RESERVOIR", "IDLE_MEASURE_RESERVOIR",
                 "FEED_PRE_MEASURE_RESERVOIR"} -> {-998135}
      [] OTHER -> {34584}

\* Noise matters where the standard deviation is looked at: in the four
\* weighings of a feed cycle.
FeedMeasureStates == {"FEED_PRE_MEASURE_RESERVOIR", "FEED_PRE_MEASURE_BOWL",
                      "FEED_POST_MEASURE_BOWL", "FEED_POST_MEASURE_RESERVOIR"}

\* The weighings before the motor runs, which a cat at the bowl disturbs
\* (condition "cat"); the HX711 may also stop answering after noisy
\* weighings (condition "failing").
PreMeasureStates == {"FEED_PRE_MEASURE_RESERVOIR", "FEED_PRE_MEASURE_BOWL"}

Signals(cond, st) ==
    [level : Levels(st),
     noise : IF \/ cond = "noisy" /\ st \in FeedMeasureStates
                \/ cond \in {"cat", "failing"} /\ st \in PreMeasureStates
             THEN NoiseLevels ELSE {0},
     alive : {TRUE}]
        \cup (IF cond \in {"dead", "failing"} THEN {DeadSignal} ELSE {})

\* digitalRead(PIN_LIMIT): a working switch is closed when the cam arrives
\* (FEED_RUN_A waits for it) and open otherwise.
Limits(cond, st) ==
    IF cond = "switch" THEN BOOLEAN ELSE {st = "FEED_RUN_A"}

\* hx711.is_ready()
HX711_is_ready(sig) == sig.alive

\* hx711.read() for the sample stored at index k.
HX711_read(sig, k) == IF k % 2 = 0 THEN sig.level + sig.noise
                                 ELSE sig.level - sig.noise

----------------------------------------------------------------------------
(* class Loadcell.  `samples` holds the part of the array written in the   *)
(* current session, samples[samples_remaining .. NUM_SAMPLES-1]; the stale *)
(* part of the array, and the whole array once a session has delivered its *)
(* statistics, is never read and is not kept.                              *)

\* The Loadcell object as constructed (loadcell.h's member initialisers):
\* no tare value is configured.
Loadcell_init ==
    [samples_remaining |-> 0, sensor |-> "RESERVOIR", apply_tare |-> FALSE,
     samples |-> <<>>, tare_reservoir |-> INT32_MIN, tare_bowl |-> INT32_MIN,
     mean |-> 0, stddev |-> 0, mean_raw |-> 0]

Loadcell_set_tare_raw(lc, sensor, raw) ==
    IF sensor = "RESERVOIR" THEN [lc EXCEPT !.tare_reservoir = raw]
    ELSE [lc EXCEPT !.tare_bowl = raw]

\* The Loadcell object after StateMachine::begin(): loadcell.begin() and the
\* two calls of set_tare_raw().
Loadcell_begin ==
    [samples_remaining |-> 0, sensor |-> "RESERVOIR", apply_tare |-> FALSE,
     samples |-> <<>>, tare_reservoir |-> TARE_RESERVOIR_BEGIN,
     tare_bowl |-> TARE_BOWL_BEGIN, mean |-> 0, stddev |-> 0, mean_raw |-> 0]

\* Loadcell::start() as it would be if a running session were left to run.
Loadcell_start_joining(lc, target_sensor, tare) ==
    [lc EXCEPT !.sensor = target_sensor,
               !.samples_remaining = IF @ = 0 THEN NUM_SAMPLES ELSE @,
               !.apply_tare = tare]

Loadcell_start(lc, target_sensor, tare) ==
    [lc EXCEPT !.sensor = target_sensor,
               !.samples_remaining = NUM_SAMPLES,
               !.samples = <<>>,
               !.apply_tare = tare]

\* The computation at the end of Loadcell::update() as it would be if every
\* session captured the tare value.
Loadcell_finish_always_taring(lc) ==
    LET accum1 == NUM_SAMPLES \div 2 + SumSeq(lc.samples)
        mean_raw == TruncDiv(accum1, NUM_SAMPLES)
        accum2 == NUM_SAMPLES \div 2 + SumSqDev(lc.samples, mean_raw)
        var100 == (100 * accum2) \div NUM_SAMPLES
        is_res == lc.sensor = "RESERVOIR"
        tare_reservoir ==
            IF is_res
            THEN mean_raw ELSE lc.tare_reservoir
        tare_bowl ==
            IF ~is_res
            THEN mean_raw ELSE lc.tare_bowl
        tare == IF is_res THEN tare_reservoir ELSE tare_bowl
        gain == IF is_res THEN GAIN_RESERVOIR ELSE GAIN_BOWL
    IN  [lc EXCEPT !.samples = <<>>,
                   !.mean_raw = mean_raw,
                   !.tare_reservoir = tare_reservoir,
                   !.tare_bowl = tare_bowl,
                   !.mean = (mean_raw - tare) * gain,
                   !.stddev = (ISqrt(var100) * Abs(gain)) \div 10]

\* The computation at the end of Loadcell::update(), once the buffer is full.
\* The variance is a float in the code, the accumulator divided by
\* NUM_SAMPLES without rounding; here it is kept in hundredths of a squared
\* count (var100), so that its square root is in tenths of a count.
Loadcell_finish(lc) ==
    LET accum1 == NUM_SAMPLES \div 2 + SumSeq(lc.samples)
        mean_raw == TruncDiv(accum1, NUM_SAMPLES)
        accum2 == NUM_SAMPLES \div 2 + SumSqDev(lc.samples, mean_raw)
        var100 == (100 * accum2) \div NUM_SAMPLES
        is_res == lc.sensor = "RESERVOIR"
        tare_reservoir ==
            IF is_res /\ (lc.apply_tare \/ lc.tare_reservoir = INT32_MIN)
            THEN mean_raw ELSE lc.tare_reservoir
        tare_bowl ==
            IF ~is_res /\ (lc.apply_tare \/ lc.tare_bowl = INT32_MIN)
            THEN mean_raw ELSE lc.tare_bowl
        tare == IF is_res THEN tare_reservoir ELSE tare_bowl
        gain == IF is_res THEN GAIN_RESERVOIR ELSE GAIN_BOWL
    IN  [lc EXCEPT !.samples = <<>>,
                   !.mean_raw = mean_raw,
                   !.tare_reservoir = tare_reservoir,
                   !.tare_bowl = tare_bowl,
                   !.mean = (mean_raw - tare) * gain,
                   !.stddev = (ISqrt(var100) * Abs(gain)) \div 10]

Loadcell_update(lc, ready, sig) ==
    IF lc.samples_remaining = 0 THEN lc
    ELSE IF ~ready THEN lc
    ELSE LET k == lc.samples_remaining - 1
             lc1 == [lc EXCEPT !.samples_remaining = k,
                               !.samples = <<HX711_read(sig, k)>> \o @]
         IN  IF k # 0 THEN lc1 ELSE Loadcell_finish(lc1)

Loadcell_is_busy(lc) == lc.samples_remaining > 0


----------------------------------------------------------------------------
(* class StateMachine: private helpers.                                    *)

error_reset(s) ==
    [s EXCEPT !.error_reservoir_stddev = FALSE,
              !.error_bowl_stddev = FALSE,
              !.error_loadcell_timeout = FALSE,
              !.error_loadcell_disagree = FALSE,
              !.error_loadcell_unreasonable = FALSE,
              !.error_limit_switch = FALSE,
              !.error_power_loss = FALSE]

\* loadcell_limp_mode() as it would be without the sensor timeout.
loadcell_limp_mode_ignoring_timeout(s) ==
    IF s.error_reservoir_stddev THEN "Reservoir noisy"
    ELSE IF s.error_bowl_stddev THEN "Bowl noisy"
    ELSE IF s.error_loadcell_disagree THEN "Sensor disagree"
    ELSE IF s.error_loadcell_unreasonable THEN "Sensor sanity"
    ELSE "nullptr"

\* The reason string, or "nullptr" when not in limp mode.
loadcell_limp_mode(s) ==
    IF s.error_loadcell_timeout THEN "Sensor timeout"
    ELSE IF s.error_reservoir_stddev THEN "Reservoir noisy"
    ELSE IF s.error_bowl_stddev THEN "Bowl noisy"
    ELSE IF s.error_loadcell_disagree THEN "Sensor disagree"
    ELSE IF s.error_loadcell_unreasonable THEN "Sensor sanity"
    ELSE "nullptr"

limp(s) == loadcell_limp_mode(s) # "nullptr"

\* need_to_feed() without the cooldown.
need_to_feed_without_cooldown(s) ==
    IF s.maintenance_mode = "MAINTENANCE" THEN "MAINTENANCE"
    ELSE IF s.maintenance_mode = "JAMMED" THEN "JAMMED"
    ELSE IF s.deficit_mg < deficit_threshold_mg THEN "DEFICIT"
    ELSE "NOT_BLOCKED"

\* need_to_feed() without the check for JAMMED.
need_to_feed_ignoring_jam(s) ==
    IF s.maintenance_mode = "MAINTENANCE" THEN "MAINTENANCE"
    ELSE IF s.deficit_mg < deficit_threshold_mg THEN "DEFICIT"
    ELSE IF s.millis_since_feed_attempt < FEED_COOLDOWN_MILLIS THEN "COOLDOWN"
    ELSE "NOT_BLOCKED"

\* need_to_feed() with the deficit looked at before the mode.
need_to_feed_deficit_first(s) ==
    IF s.deficit_mg < deficit_threshold_mg THEN "DEFICIT"
    ELSE IF s.maintenance_mode = "MAINTENANCE" THEN "MAINTENANCE"
    ELSE IF s.maintenance_mode = "JAMMED" THEN "JAMMED"
    ELSE IF s.millis_since_feed_attempt < FEED_COOLDOWN_MILLIS THEN "COOLDOWN"
    ELSE "NOT_BLOCKED"

need_to_feed(s) ==
    IF s.maintenance_mode = "MAINTENANCE" THEN "MAINTENANCE"
    ELSE IF s.maintenance_mode = "JAMMED" THEN "JAMMED"
    ELSE IF s.deficit_mg < deficit_threshold_mg THEN "DEFICIT"
    ELSE IF s.millis_since_feed_attempt < FEED_COOLDOWN_MILLIS THEN "COOLDOWN"
    ELSE "NOT_BLOCKED"

\* get_error_report() with the power loss looked at first.
get_error_report_power_first(s) ==
    IF s.error_power_loss
    THEN [message |-> "Power loss", severity |-> "ERROR"]
    ELSE IF s.error_limit_switch
    THEN [message |-> "Motor timeout", severity |-> "ERROR"]
    ELSE IF limp(s)
    THEN [message |-> loadcell_limp_mode(s), severity |-> "ERROR"]
    ELSE IF s.maintenance_mode = "JAMMED"
    THEN [message |-> "Jammed/empty", severity |-> "ERROR"]
    ELSE IF s.feed_jammed_retries # 0
    THEN [message |-> "Jammed/empty?", severity |-> "WARNING"]
    ELSE IF s.reservoir_mean < RESERVOIR_LOW_GRAMS
    THEN [message |-> "Reservoir low", severity |-> "WARNING"]
    ELSE [message |-> "nullptr", severity |-> "OKAY"]

get_error_report(s) ==
    IF s.error_limit_switch
    THEN [message |-> "Motor timeout", severity |-> "ERROR"]
    ELSE IF limp(s)
    THEN [message |-> loadcell_limp_mode(s), severity |-> "ERROR"]
    ELSE IF s.error_power_loss
    THEN [message |-> "Power loss", severity |-> "ERROR"]
    ELSE IF s.maintenance_mode = "JAMMED"
    THEN [message |-> "Jammed/empty", severity |-> "ERROR"]
    ELSE IF s.feed_jammed_retries # 0
    THEN [message |-> "Jammed/empty?", severity |-> "WARNING"]
    ELSE IF s.reservoir_mean < RESERVOIR_LOW_GRAMS
    THEN [message |-> "Reservoir low", severity |-> "WARNING"]
    ELSE [message |-> "nullptr", severity |-> "OKAY"]

\* transition() as it would be if the retry counter were kept on a change
\* of state.
transition_keeping_retries(s, new_state) ==
    LET retries == IF new_state = s.state
                   THEN (s.state_retries + 1) % UINT16
                   ELSE s.state_retries
        lc == s.loadcell
        lc1 == CASE new_state = "IDLE_TARE_RESERVOIR" ->
                        Loadcell_start(lc, "RESERVOIR", TRUE)
                 [] new_state = "IDLE_TARE_BOWL" ->
                        Loadcell_start(lc, "BOWL", TRUE)
                 [] new_state \in {"IDLE_MEASURE_RESERVOIR",
                                   "FEED_PRE_MEASURE_RESERVOIR",
                                   "FEED_POST_MEASURE_RESERVOIR"} ->
                        Loadcell_start(lc, "RESERVOIR", FALSE)
                 [] new_state \in {"IDLE_MEASURE_BOWL",
                                   "FEED_PRE_MEASURE_BOWL",
                                   "FEED_POST_MEASURE_BOWL"} ->
                        Loadcell_start(lc, "BOWL", FALSE)
                 [] OTHER -> lc
    IN  [s EXCEPT !.state_retries = retries,
                  !.loadcell = lc1,
                  !.millis_since_transition = 0,
                  !.state = new_state]

transition(s, new_state) ==
    LET retries == IF new_state = s.state
                   THEN (s.state_retries + 1) % UINT16 ELSE 0
        lc == s.loadcell
        lc1 == CASE new_state = "IDLE_TARE_RESERVOIR" ->
                        Loadcell_start(lc, "RESERVOIR", TRUE)
                 [] new_state = "IDLE_TARE_BOWL" ->
                        Loadcell_start(lc, "BOWL", TRUE)
                 [] new_state \in {"IDLE_MEASURE_RESERVOIR",
                                   "FEED_PRE_MEASURE_RESERVOIR",
                                   "FEED_POST_MEASURE_RESERVOIR"} ->
                        Loadcell_start(lc, "RESERVOIR", FALSE)
                 [] new_state \in {"IDLE_MEASURE_BOWL",
                                   "FEED_PRE_MEASURE_BOWL",
                                   "FEED_POST_MEASURE_BOWL"} ->
                        Loadcell_start(lc, "BOWL", FALSE)
                 [] OTHER -> lc
    IN  [s EXCEPT !.state_retries = retries,
                  !.loadcell = lc1,
                  !.millis_since_transition = 0,
                  !.state = new_state]

\* Returns the object after the call and the call's result.
handle_loadcell_readout(s) ==
    IF s.error_loadcell_timeout
       \/ s.millis_since_transition > LOADCELL_TIMEOUT_MILLIS
    THEN [fsm |-> [s EXCEPT !.error_loadcell_timeout = TRUE], done |-> TRUE]
    ELSE IF Loadcell_is_busy(s.loadcell)
    THEN [fsm |-> s, done |-> FALSE]
    ELSE IF s.loadcell.sensor = "RESERVOIR"
    THEN [fsm |-> [s EXCEPT !.reservoir_mean = s.loadcell.mean,
                            !.millis_since_reservoir_read = 0],
          done |-> TRUE]
    ELSE [fsm |-> [s EXCEPT !.millis_since_bowl_read = 0], done |-> TRUE]

\* estimate_dispensed_weight_grams() as it would be without the comparison
\* of the two load cells.
estimate_without_disagree(s) ==
    IF limp(s) THEN [fsm |-> s, grams |-> FEED_ASSUMED_WEIGHT_GRAMS]
    ELSE
    LET dispensed_reservoir == s.feed_reservoir_pre - s.feed_reservoir_post
        dispensed_bowl == s.feed_bowl_post - s.feed_bowl_pre
        dispensed == TruncDiv(dispensed_reservoir + dispensed_bowl, 2)
    IN  IF dispensed < FEED_MIN_REASONABLE
           \/ dispensed > FEED_MAX_REASONABLE
        THEN [fsm |-> [s EXCEPT !.error_loadcell_unreasonable = TRUE],
              grams |-> FEED_ASSUMED_WEIGHT_GRAMS]
        ELSE [fsm |-> s, grams |-> dispensed]

\* Returns the object after the call (flags may be set) and the weight.
estimate_dispensed_weight_grams(s) ==
    IF limp(s) THEN [fsm |-> s, grams |-> FEED_ASSUMED_WEIGHT_GRAMS]
    ELSE
    LET dispensed_reservoir == s.feed_reservoir_pre - s.feed_reservoir_post
        dispensed_bowl == s.feed_bowl_post - s.feed_bowl_pre
        dispensed == TruncDiv(dispensed_reservoir + dispensed_bowl, 2)
    IN  IF Abs(dispensed_reservoir - dispensed_bowl) > FEED_MAX_DISAGREE_GRAMS
        THEN [fsm |-> [s EXCEPT !.error_loadcell_disagree = TRUE],
              grams |-> FEED_ASSUMED_WEIGHT_GRAMS]
        ELSE IF dispensed < FEED_MIN_REASONABLE
                \/ dispensed > FEED_MAX_REASONABLE
        THEN [fsm |-> [s EXCEPT !.error_loadcell_unreasonable = TRUE],
              grams |-> FEED_ASSUMED_WEIGHT_GRAMS]
        ELSE [fsm |-> s, grams |-> dispensed]

\* static_cast<int>(grams * 1000.0f)
GramsToMg(grams) == TruncDiv(grams, 1000)

\* complete_feed() as it would be without the way back from JAMMED.
complete_feed_staying_jammed(s) ==
    LET e == estimate_dispensed_weight_grams(s)
        s1 == e.fsm
        s2 == IF e.grams > FEED_JAM_WEIGHT
              THEN [s1 EXCEPT !.feed_jammed_retries = 0]
              ELSE LET n == (s1.feed_jammed_retries + 1) % UINT16
                   IN  [s1 EXCEPT !.feed_jammed_retries = n,
                                  !.maintenance_mode =
                                      IF n >= FEED_MAX_RETRIES
                                      THEN "JAMMED" ELSE @]
        s3 == [s2 EXCEPT !.deficit_mg = @ - GramsToMg(e.grams),
                         !.millis_since_feed_attempt = 0,
                         !.feed_sensor_retries = 0,
                         !.feed_report = [result |-> "SUCCESS",
                                          arg |-> GramsToMg(e.grams)]]
    IN  transition(s3, "IDLE")

\* complete_feed() as it would be without "deficit_mg -= dispensed_weight_mg".
complete_feed_keeping_deficit(s) ==
    LET e == estimate_dispensed_weight_grams(s)
        s1 == e.fsm
        s2 == IF e.grams > FEED_JAM_WEIGHT
              THEN [s1 EXCEPT !.feed_jammed_retries = 0,
                              !.maintenance_mode =
                                  IF @ = "JAMMED" THEN "OPERATIONAL" ELSE @]
              ELSE LET n == (s1.feed_jammed_retries + 1) % UINT16
                   IN  [s1 EXCEPT !.feed_jammed_retries = n,
                                  !.maintenance_mode =
                                      IF n >= FEED_MAX_RETRIES
                                      THEN "JAMMED" ELSE @]
        s3 == [s2 EXCEPT !.millis_since_feed_attempt = 0,
                         !.feed_sensor_retries = 0,
                         !.feed_report = [result |-> "SUCCESS",
                                          arg |-> GramsToMg(e.grams)]]
    IN  transition(s3, "IDLE")

\* complete_feed() as it would be without "millis_since_feed_attempt = 0".
complete_feed_keeping_timer(s) ==
    LET e == estimate_dispensed_weight_grams(s)
        s1 == e.fsm
        s2 == IF e.grams > FEED_JAM_WEIGHT
              THEN [s1 EXCEPT !.feed_jammed_retries = 0,
                              !.maintenance_mode =
                                  IF @ = "JAMMED" THEN "OPERATIONAL" ELSE @]
              ELSE LET n == (s1.feed_jammed_retries + 1) % UINT16
                   IN  [s1 EXCEPT !.feed_jammed_retries = n,
                                  !.maintenance_mode =
                                      IF n >= FEED_MAX_RETRIES
                                      THEN "JAMMED" ELSE @]
        s3 == [s2 EXCEPT !.deficit_mg = @ - GramsToMg(e.grams),
                         !.feed_sensor_retries = 0,
                         !.feed_report = [result |-> "SUCCESS",
                                          arg |-> GramsToMg(e.grams)]]
    IN  transition(s3, "IDLE")

\* complete_feed() as it would be if a feed booked with the nominal weight in
\* limp mode counted as a low feed.
complete_feed_judging_nominal_weight(s) ==
    LET e == estimate_dispensed_weight_grams(s)
        s1 == e.fsm
        dispensed_weight_grams == e.grams
        s2 == IF dispensed_weight_grams > FEED_JAM_WEIGHT /\ ~limp(s1)
              THEN [s1 EXCEPT !.feed_jammed_retries = 0,
                              !.maintenance_mode =
                                  IF @ = "JAMMED" THEN "OPERATIONAL" ELSE @]
              ELSE LET n == (s1.feed_jammed_retries + 1) % UINT16
                   IN  [s1 EXCEPT !.feed_jammed_retries = n,
                                  !.maintenance_mode =
                                      IF n >= FEED_MAX_RETRIES
                                      THEN "JAMMED" ELSE @]
        dispensed_weight_mg == GramsToMg(dispensed_weight_grams)
        s3 == [s2 EXCEPT !.deficit_mg = @ - dispensed_weight_mg,
                         !.millis_since_feed_attempt = 0,
                         !.feed_sensor_retries = 0,
                         !.feed_report = [result |-> "SUCCESS",
                                          arg |-> dispensed_weight_mg]]
    IN  transition(s3, "IDLE")

complete_feed(s) ==
    LET e == estimate_dispensed_weight_grams(s)
        s1 == e.fsm
        dispensed_weight_grams == e.grams
        s2 == IF dispensed_weight_grams > FEED_JAM_WEIGHT
              THEN [s1 EXCEPT !.feed_jammed_retries = 0,
                              !.maintenance_mode =
                                  IF @ = "JAMMED" THEN "OPERATIONAL" ELSE @]
              ELSE LET n == (s1.feed_jammed_retries + 1) % UINT16
                   IN  [s1 EXCEPT !.feed_jammed_retries = n,
                                  !.maintenance_mode =
                                      IF n >= FEED_MAX_RETRIES
                                      THEN "JAMMED" ELSE @]
        dispensed_weight_mg == GramsToMg(dispensed_weight_grams)
        s3 == [s2 EXCEPT !.deficit_mg = @ - dispensed_weight_mg,
                         !.millis_since_feed_attempt = 0,
                         !.feed_sensor_retries = 0,
                         !.feed_report = [result |-> "SUCCESS",
                                          arg |-> dispensed_weight_mg]]
    IN  transition(s3, "IDLE")


----------------------------------------------------------------------------
(* class StateMachine: the command surface.                                *)

enter_maintenance(s) ==
    transition([error_reset(s) EXCEPT !.maintenance_mode = "MAINTENANCE"],
               "IDLE")

\* tare_reservoir() as it would be with a call of error_reset().
tare_reservoir_clearing(s) ==
    transition([error_reset(s) EXCEPT !.maintenance_mode = "MAINTENANCE"],
               "IDLE_TARE_RESERVOIR_WAIT")

tare_reservoir(s) ==
    transition([s EXCEPT !.maintenance_mode = "MAINTENANCE"],
               "IDLE_TARE_RESERVOIR_WAIT")

tare_bowl(s) ==
    transition([s EXCEPT !.maintenance_mode = "MAINTENANCE"],
               "IDLE_TARE_BOWL")

\* reset() as it would be without "state_retries = 0".
reset_keeping_state_retries(s) ==
    [transition([error_reset(s) EXCEPT !.maintenance_mode = "OPERATIONAL"],
                "IDLE")
        EXCEPT !.feed_jammed_retries = 0,
               !.feed_sensor_retries = 0]

reset(s) ==
    [transition([error_reset(s) EXCEPT !.maintenance_mode = "OPERATIONAL"],
                "IDLE")
        EXCEPT !.state_retries = 0,
               !.feed_jammed_retries = 0,
               !.feed_sensor_retries = 0]

feed(s) == transition(s, "FEED_PRE_MEASURE_WAIT")

adjust_deficit(s, milligrams) == [s EXCEPT !.deficit_mg = @ + milligrams]

set_grams_per_day(s, new_grams_per_day) ==
    [s EXCEPT !.grams_per_day = new_grams_per_day]

----------------------------------------------------------------------------
(* StateMachine::update(), in the order of the source.                     *)

\* The body of the deficit loop as it would be with a period of
\* 86400000 / grams_per_day.
accrue_step_per_gram(s) ==
    [s EXCEPT !.deficit_ms_remain = @ + TruncDiv(1000 * MS_PER_DAY_MG, s.grams_per_day),
              !.deficit_mg = @ + 1]

\* One iteration of the deficit loop's body.
accrue_step(s) ==
    [s EXCEPT !.deficit_ms_remain = @ + TruncDiv(MS_PER_DAY_MG, s.grams_per_day),
              !.deficit_mg = @ + 1]

\* The deficit loop as it would be if it started the countdown afresh
\* instead of adding the period to what is left.
accrue_loop_restarting(s) ==
    LET period == TruncDiv(MS_PER_DAY_MG, s.grams_per_day)
        n == (period - 1 - s.deficit_ms_remain) \div period
    IN  IF s.deficit_ms_remain >= 0 THEN s
        ELSE [s EXCEPT !.deficit_ms_remain = period,
                       !.deficit_mg = @ + n]

\* while (deficit_ms_remain < 0) { ... }: the loop's result where it
\* terminates (a positive period), as the number n of iterations it makes,
\* the least n with deficit_ms_remain + n * period >= 0.  (The loop is
\* followed one iteration at a time by LoopIter below.)
accrue_loop(s) ==
    LET period == TruncDiv(MS_PER_DAY_MG, s.grams_per_day)
        n == (period - 1 - s.deficit_ms_remain) \div period
    IN  IF s.deficit_ms_remain >= 0 THEN s
        ELSE [s EXCEPT !.deficit_ms_remain = @ + n * period,
                       !.deficit_mg = @ + n]

\* "Update deficit": the countdown is decremented, then the loop runs.
update_deficit(s, delta_millis) ==
    accrue_loop([s EXCEPT !.deficit_ms_remain = @ - delta_millis])

\* "Update regular timers".  The two read timers are saturated together so
\* that the order between them is kept.
update_timers(s, delta_millis) ==
    LET r0 == s.millis_since_reservoir_read
        b0 == s.millis_since_bowl_read
        r == SatAdd(r0, delta_millis, ReadCap)
        b == SatAdd(b0, delta_millis, ReadCap)
        both == r = ReadCap /\ b = ReadCap
    IN  [s EXCEPT
            !.millis_since_reservoir_read =
                IF both /\ r0 < b0 THEN ReadCap - 1 ELSE r,
            !.millis_since_bowl_read =
                IF both /\ b0 < r0 THEN ReadCap - 1 ELSE b,
            !.millis_since_feed_attempt = SatAdd(@, delta_millis, FeedCap),
            !.millis_since_transition = SatAdd(@, delta_millis, TransCap)]

\* The IDLE case with the sensor refresh looked at before need_to_feed().
case_IDLE_refresh_first(s) ==
    LET sensor_read_cooldown ==
            IF s.maintenance_mode = "MAINTENANCE" THEN 0
            ELSE SENSOR_READ_COOLDOWN
    IN  IF s.millis_since_reservoir_read > s.millis_since_bowl_read
           /\ s.millis_since_reservoir_read > sensor_read_cooldown
        THEN transition(s, "IDLE_MEASURE_RESERVOIR")
        ELSE IF s.millis_since_reservoir_read <= s.millis_since_bowl_read
                /\ s.millis_since_bowl_read > sensor_read_cooldown
        THEN transition(s, "IDLE_MEASURE_BOWL")
        ELSE IF need_to_feed(s) = "NOT_BLOCKED" THEN feed(s)
        ELSE s

\* The IDLE case as it would be if a tie went to the reservoir.
case_IDLE_reservoir_on_tie(s) ==
    IF need_to_feed(s) = "NOT_BLOCKED" THEN feed(s)
    ELSE
    LET sensor_read_cooldown ==
            IF s.maintenance_mode = "MAINTENANCE" THEN 0
            ELSE SENSOR_READ_COOLDOWN
    IN  IF s.millis_since_reservoir_read >= s.millis_since_bowl_read
        THEN IF s.millis_since_reservoir_read > sensor_read_cooldown
             THEN transition(s, "IDLE_MEASURE_RESERVOIR") ELSE s
        ELSE IF s.millis_since_bowl_read > sensor_read_cooldown
             THEN transition(s, "IDLE_MEASURE_BOWL") ELSE s

case_IDLE(s) ==
    IF need_to_feed(s) = "NOT_BLOCKED" THEN feed(s)
    ELSE
    LET sensor_read_cooldown ==
            IF s.maintenance_mode = "MAINTENANCE" THEN 0
            ELSE SENSOR_READ_COOLDOWN
    IN  IF s.millis_since_reservoir_read > s.millis_since_bowl_read
        THEN IF s.millis_since_reservoir_read > sensor_read_cooldown
             THEN transition(s, "IDLE_MEASURE_RESERVOIR") ELSE s
        ELSE IF s.millis_since_bowl_read > sensor_read_cooldown
             THEN transition(s, "IDLE_MEASURE_BOWL") ELSE s

case_IDLE_TARE_RESERVOIR_WAIT(s) ==
    IF s.millis_since_transition > SETTLE_MILLIS
    THEN transition(s, "IDLE_TARE_RESERVOIR") ELSE s

\* IDLE_TARE_RESERVOIR, IDLE_MEASURE_RESERVOIR, IDLE_TARE_BOWL,
\* IDLE_MEASURE_BOWL
case_IDLE_MEASURE(s) ==
    LET h == handle_loadcell_readout(s)
    IN  IF h.done THEN transition(h.fsm, "IDLE") ELSE h.fsm

\* The FEED_PRE_MEASURE_WAIT case as it would be without the settle time.
case_FEED_PRE_MEASURE_WAIT_skipping(s) ==
    transition(s, "FEED_PRE_MEASURE_RESERVOIR")

case_FEED_PRE_MEASURE_WAIT(s) ==
    IF s.millis_since_transition > SETTLE_MILLIS
    THEN transition(s, "FEED_PRE_MEASURE_RESERVOIR") ELSE s

\* The abort of a feed cycle as it would be without the feed report.
sensor_retry_without_report(s) ==
    LET n == (s.feed_sensor_retries + 1) % UINT16
    IN  transition([s EXCEPT !.millis_since_feed_attempt = 0,
                             !.feed_sensor_retries = n],
                   "IDLE")

\* The abort of a feed cycle as it would be without
\* "millis_since_feed_attempt = 0".
sensor_retry_keeping_timer(s) ==
    LET n == (s.feed_sensor_retries + 1) % UINT16
    IN  transition([s EXCEPT !.feed_sensor_retries = n,
                             !.feed_report = [result |-> "SENSOR_RETRY",
                                              arg |-> n]],
                   "IDLE")

\* The abort of a feed cycle as it would be if it reset the jam counter.
sensor_retry_resetting_jam(s) ==
    LET n == (s.feed_sensor_retries + 1) % UINT16
    IN  transition([s EXCEPT !.millis_since_feed_attempt = 0,
                             !.feed_sensor_retries = n,
                             !.feed_jammed_retries = 0,
                             !.feed_report = [result |-> "SENSOR_RETRY",
                                              arg |-> n]],
                   "IDLE")

\* The abort of a feed cycle on persistent noise before the motor has run.
sensor_retry(s) ==
    LET n == (s.feed_sensor_retries + 1) % UINT16
    IN  transition([s EXCEPT !.millis_since_feed_attempt = 0,
                             !.feed_sensor_retries = n,
                             !.feed_report = [result |-> "SENSOR_RETRY",
                                              arg |-> n]],
                   "IDLE")

case_FEED_PRE_MEASURE_RESERVOIR(s) ==
    LET h == handle_loadcell_readout(s)
        s1 == h.fsm
        limp_mode == transition([s1 EXCEPT !.error_reservoir_stddev = TRUE],
                                "FEED_PRE_MEASURE_BOWL")
    IN  IF limp(s)
        THEN transition([s EXCEPT !.error_reservoir_stddev = TRUE],
                        "FEED_PRE_MEASURE_BOWL")
        ELSE IF ~h.done THEN s1
        ELSE IF s1.loadcell.stddev < STDDEV_LIMIT
        THEN transition([s1 EXCEPT !.feed_reservoir_pre = s1.loadcell.mean],
                        "FEED_PRE_MEASURE_BOWL")
        ELSE IF s1.state_retries < STATE_MAX_RETRIES
        THEN transition(s1, s1.state)
        ELSE IF s1.feed_sensor_retries <= FEED_MAX_RETRIES
        THEN sensor_retry(s1)
        ELSE limp_mode

case_FEED_PRE_MEASURE_BOWL(s) ==
    LET h == handle_loadcell_readout(s)
        s1 == h.fsm
        limp_mode == transition([s1 EXCEPT !.error_bowl_stddev = TRUE],
                                "FEED_RUN_SYNC")
    IN  IF limp(s)
        THEN transition([s EXCEPT !.error_bowl_stddev = TRUE],
                        "FEED_RUN_SYNC")
        ELSE IF ~h.done THEN s1
        ELSE IF s1.loadcell.stddev < STDDEV_LIMIT
        THEN transition([s1 EXCEPT !.feed_bowl_pre = s1.loadcell.mean],
                        "FEED_RUN_SYNC")
        ELSE IF s1.state_retries < STATE_MAX_RETRIES
        THEN transition(s1, s1.state)
        ELSE IF s1.feed_sensor_retries <= FEED_MAX_RETRIES
        THEN sensor_retry(s1)
        ELSE limp_mode

\* The motor timeout as it would be if it gave up the cycle.
motor_timeout_aborting(s) ==
    transition(s, "IDLE")

\* "Error. Assume motor already moved a bunch and continue."
motor_timeout(s) ==
    transition([s EXCEPT !.error_limit_switch = TRUE], "FEED_POST_WAIT")

\* The FEED_RUN_SYNC case as it would be if the limit switch flag were not
\* looked at.
case_FEED_RUN_SYNC_closed_loop(s, limit) ==
    IF TRUE
    THEN IF ~limit THEN transition(s, "FEED_RUN_A")
         ELSE IF s.millis_since_transition < FEED_RUN_TIMEOUT_MILLIS THEN s
         ELSE motor_timeout(s)
    ELSE IF s.millis_since_transition > FEED_RUN_LIMP_MILLIS
         THEN transition(s, "FEED_POST_WAIT") ELSE s

\* The FEED_RUN_SYNC case as it would be if the timeout went on to
\* FEED_RUN_A.
case_FEED_RUN_SYNC_proceeding(s, limit) ==
    IF ~s.error_limit_switch
    THEN IF ~limit THEN transition(s, "FEED_RUN_A")
         ELSE IF s.millis_since_transition < FEED_RUN_TIMEOUT_MILLIS THEN s
         ELSE transition(s, "FEED_RUN_A")
    ELSE IF s.millis_since_transition > FEED_RUN_LIMP_MILLIS
         THEN transition(s, "FEED_POST_WAIT") ELSE s

case_FEED_RUN_SYNC(s, limit) ==
    IF ~s.error_limit_switch
    THEN IF ~limit THEN transition(s, "FEED_RUN_A")
         ELSE IF s.millis_since_transition < FEED_RUN_TIMEOUT_MILLIS THEN s
         ELSE motor_timeout(s)
    ELSE IF s.millis_since_transition > FEED_RUN_LIMP_MILLIS
         THEN transition(s, "FEED_POST_WAIT") ELSE s

\* The FEED_RUN_A case as it would be without the 50 ms after the entry.
case_FEED_RUN_A_at_once(s, limit) ==
    IF limit
    THEN transition(s, "FEED_RUN_B")
    ELSE IF s.millis_since_transition < FEED_RUN_TIMEOUT_MILLIS THEN s
    ELSE motor_timeout(s)

case_FEED_RUN_A(s, limit) ==
    IF limit /\ s.millis_since_transition > DEBOUNCE_MILLIS
    THEN transition(s, "FEED_RUN_B")
    ELSE IF s.millis_since_transition < FEED_RUN_TIMEOUT_MILLIS THEN s
    ELSE motor_timeout(s)

case_FEED_RUN_B(s, limit) ==
    IF ~limit /\ s.millis_since_transition > DEBOUNCE_MILLIS
    THEN transition(s, "FEED_RUN_C")
    ELSE IF s.millis_since_transition < FEED_RUN_TIMEOUT_MILLIS THEN s
    ELSE motor_timeout(s)

\* The FEED_RUN_C case as it would be if the trailing phase had no time
\* limit.
case_FEED_RUN_C_forever(s) == s

case_FEED_RUN_C(s) ==
    IF s.millis_since_transition > FEED_RUN_POST_MILLIS
    THEN transition(s, "FEED_POST_WAIT") ELSE s

\* The FEED_POST_WAIT case as it would be if the wait never ended.
case_FEED_POST_WAIT_forever(s) == s

case_FEED_POST_WAIT(s) ==
    IF s.millis_since_transition > FEED_TO_MEASURE_MILLIS
    THEN transition(s, "FEED_POST_MEASURE_BOWL") ELSE s

\* The FEED_POST_MEASURE_BOWL case as it would be if a noisy weighing were
\* repeated without a bound.
case_FEED_POST_MEASURE_BOWL_retrying(s) ==
    LET h == handle_loadcell_readout(s)
        s1 == h.fsm
    IN  IF limp(s)
        THEN transition([s EXCEPT !.error_bowl_stddev = TRUE],
                        "FEED_POST_MEASURE_RESERVOIR")
        ELSE IF ~h.done THEN s1
        ELSE IF s1.loadcell.stddev < STDDEV_LIMIT
        THEN transition([s1 EXCEPT !.feed_bowl_post = s1.loadcell.mean],
                        "FEED_POST_MEASURE_RESERVOIR")
        ELSE IF s1.state_retries < UINT16
        THEN transition(s1, s1.state)
        ELSE transition([s1 EXCEPT !.error_bowl_stddev = TRUE],
                        "FEED_POST_MEASURE_RESERVOIR")

\* The FEED_POST_MEASURE_BOWL case as it would be with the way out that the
\* weighings before the run have.
case_FEED_POST_MEASURE_BOWL_aborting(s) ==
    LET h == handle_loadcell_readout(s)
        s1 == h.fsm
    IN  IF limp(s)
        THEN transition([s EXCEPT !.error_bowl_stddev = TRUE],
                        "FEED_POST_MEASURE_RESERVOIR")
        ELSE IF ~h.done THEN s1
        ELSE IF s1.loadcell.stddev < STDDEV_LIMIT
        THEN transition([s1 EXCEPT !.feed_bowl_post = s1.loadcell.mean],
                        "FEED_POST_MEASURE_RESERVOIR")
        ELSE IF s1.state_retries < STATE_MAX_RETRIES
        THEN transition(s1, s1.state)
        ELSE sensor_retry(s1)

case_FEED_POST_MEASURE_BOWL(s) ==
    LET h == handle_loadcell_readout(s)
        s1 == h.fsm
    IN  IF limp(s)
        THEN transition([s EXCEPT !.error_bowl_stddev = TRUE],
                        "FEED_POST_MEASURE_RESERVOIR")
        ELSE IF ~h.done THEN s1
        ELSE IF s1.loadcell.stddev < STDDEV_LIMIT
        THEN transition([s1 EXCEPT !.feed_bowl_post = s1.loadcell.mean],
                        "FEED_POST_MEASURE_RESERVOIR")
        ELSE IF s1.state_retries < STATE_MAX_RETRIES
        THEN transition(s1, s1.state)
        ELSE transition([s1 EXCEPT !.error_bowl_stddev = TRUE],
                        "FEED_POST_MEASURE_RESERVOIR")

case_FEED_POST_MEASURE_RESERVOIR(s) ==
    LET h == handle_loadcell_readout(s)
        s1 == h.fsm
    IN  IF limp(s)
        THEN complete_feed([s EXCEPT !.error_reservoir_stddev = TRUE])
        ELSE IF ~h.done THEN s1
        ELSE IF s1.loadcell.stddev < STDDEV_LIMIT
        THEN complete_feed([s1 EXCEPT
                               !.feed_reservoir_post = s1.loadcell.mean])
        ELSE IF s1.state_retries < STATE_MAX_RETRIES
        THEN transition(s1, s1.state)
        ELSE complete_feed([s1 EXCEPT !.error_reservoir_stddev = TRUE])

\* "Handle state machine": the switch on the state.
handle_state(s, limit) ==
    CASE s.state = "IDLE" -> case_IDLE(s)
      [] s.state = "IDLE_TARE_RESERVOIR_WAIT" -> case_IDLE_TARE_RESERVOIR_WAIT(s)
      [] s.state \in {"IDLE_TARE_RESERVOIR", "IDLE_MEASURE_RESERVOIR",
                      "IDLE_TARE_BOWL", "IDLE_MEASURE_BOWL"} ->
             case_IDLE_MEASURE(s)
      [] s.state = "FEED_PRE_MEASURE_WAIT" -> case_FEED_PRE_MEASURE_WAIT(s)
      [] s.state = "FEED_PRE_MEASURE_RESERVOIR" ->
             case_FEED_PRE_MEASURE_RESERVOIR(s)
      [] s.state = "FEED_PRE_MEASURE_BOWL" -> case_FEED_PRE_MEASURE_BOWL(s)
      [] s.state = "FEED_RUN_SYNC" -> case_FEED_RUN_SYNC(s, limit)
      [] s.state = "FEED_RUN_A" -> case_FEED_RUN_A(s, limit)
      [] s.state = "FEED_RUN_B" -> case_FEED_RUN_B(s, limit)
      [] s.state = "FEED_RUN_C" -> case_FEED_RUN_C(s)
      [] s.state = "FEED_POST_WAIT" -> case_FEED_POST_WAIT(s)
      [] s.state = "FEED_POST_MEASURE_BOWL" -> case_FEED_POST_MEASURE_BOWL(s)
      [] s.state = "FEED_POST_MEASURE_RESERVOIR" ->
             case_FEED_POST_MEASURE_RESERVOIR(s)

\* The value written to PIN_MOTOR at the end of update(): `motor` is set in
\* the four run cases, on entry to the case, before any transition.
motor_of(s) == s.state \in RunStates

\* update() up to the deficit loop: loadcell.update() and the decrement of
\* the countdown.
update_enter(s, delta_millis, ready, sig) ==
    [s EXCEPT !.loadcell = Loadcell_update(@, ready, sig),
              !.deficit_ms_remain = @ - delta_millis]

\* update() after the deficit loop, as it would be if the motor pin were
\* written from the state the switch leaves behind.
update_rest_motor_after(s, delta_millis, limit) ==
    LET s3 == update_timers(s, delta_millis)
        s4 == handle_state(s3, limit)
    IN  [fsm |-> s4, motor |-> motor_of(s4)]

\* update() after the deficit loop: the timers, the switch, the motor pin.
update_rest(s, delta_millis, limit) ==
    LET s3 == update_timers(s, delta_millis)
    IN  [fsm |-> handle_state(s3, limit), motor |-> motor_of(s3)]

\* update() with its inputs: the elapsed time, whether the HX711 has a
\* reading ready, the signal it delivers, and the limit switch level.
update(s, delta_millis, ready, sig, limit) ==
    update_rest(accrue_loop(update_enter(s, delta_millis, ready, sig)),
                delta_millis, limit)

\* "Figure out time delta": update() as called when millis() returns
\* current_millis.  (The other runs hand update() its delta_millis and
\* leave update_prev_millis alone.)
update_at(s, current_millis, ready, sig, limit) ==
    LET delta_millis == ToInt32(U32Sub(current_millis, s.update_prev_millis))
        u == update(s, delta_millis, ready, sig, limit)
    IN  [fsm |-> [u.fsm EXCEPT !.update_prev_millis = current_millis],
         motor |-> u.motor,
         delta_millis |-> delta_millis]


----------------------------------------------------------------------------
(* The system: main.cpp's loop() calls fsm.update() once per iteration and *)
(* the command methods when a button or an MQTT message asks for them.     *)

\* The object after its construction (fsm.h's member initialisers) and
\* begin(), which presets the two tare values.
StateMachine_begin ==
    [state |-> "IDLE",
     maintenance_mode |-> "OPERATIONAL",
     error_reservoir_stddev |-> FALSE,
     error_bowl_stddev |-> FALSE,
     error_loadcell_timeout |-> FALSE,
     error_loadcell_disagree |-> FALSE,
     error_loadcell_unreasonable |-> FALSE,
     error_limit_switch |-> FALSE,
     error_power_loss |-> TRUE,
     grams_per_day |-> GRAMS_PER_DAY_DEFAULT,
     deficit_ms_remain |-> 0,
     deficit_mg |-> 0,
     millis_since_reservoir_read |-> ReadCap,
     millis_since_bowl_read |-> ReadCap,
     millis_since_feed_attempt |-> 0,
     millis_since_transition |-> 0,
     state_retries |-> 0,
     feed_sensor_retries |-> 0,
     feed_jammed_retries |-> 0,
     feed_reservoir_pre |-> 0,
     feed_reservoir_post |-> 0,
     feed_bowl_pre |-> 0,
     feed_bowl_post |-> 0,
     feed_report |-> [result |-> "NONE", arg |-> 0],
     reservoir_mean |-> 0,
     update_prev_millis |-> U32(0),
     loadcell |-> Loadcell_begin]

QuietSignal == [level |-> -998135, noise |-> 0, alive |-> TRUE]

Call(name, arg) ==
    [name |-> name, arg |-> arg, state |-> fsm.state,
     mode |-> fsm.maintenance_mode]

Outside == [at |-> "main", delta_millis |-> 0, n |-> 0]

\* No feed attempt has ended yet: the time counts from begin().
NoAttempt == [ms |-> 0, how |-> "none"]

\* millis() right after the start of the program.
Booted == [millis |-> U32(0), passed |-> 0]

\* PIN_MOTOR is low and has not been high yet.
NotRunning == [ms |-> 0, limp |-> FALSE, tick |-> 0]

\* PIN_LIMIT has not been read yet.  The history is kept by the runs that
\* follow the motor from tick to tick.
NoLimit == [level |-> FALSE, ms |-> 0]

InitObject ==
    /\ fsm = StateMachine_begin
    /\ hx711 = QuietSignal
    /\ pin_motor = FALSE
    /\ last_call = [name |-> "begin", arg |-> 0, state |-> "IDLE",
                    mode |-> "OPERATIONAL"]
    /\ low_streak = 0
    /\ since_end = NoAttempt
    /\ limit_seen = NoLimit
    /\ clock = Booted
    /\ motor_on = NotRunning
    /\ pc = Outside

Init ==
    /\ InitObject
    /\ hw \in HwConditions
    /\ budget = MaxCommands
    /\ pauses = MaxPauses

\* The signal seen by a session is chosen when the session starts (in the
\* step that makes the transition); between sessions the HX711 is not read.
NewSignal(s) ==
    IF s.loadcell.samples_remaining = NUM_SAMPLES
       /\ s.millis_since_transition = 0 /\ s # fsm
    THEN hx711' \in Signals(hw, s.state)
    ELSE IF s.loadcell.samples_remaining = 0
    THEN hx711' = QuietSignal
    ELSE hx711' = hx711

\* delta_millis of the next call of update().  Calls follow each other
\* without measurable delay (delta_millis = 0); when a call would find
\* nothing to do, the time until the next call that matters may pass first:
\* StepMs in a state with a deadline, BigMs in Idle.  In Idle a long pause
\* may also pass before a call that has work to do.
Elapsed(s, sig, limit) ==
    LET busy == update(s, 0, HX711_is_ready(sig), sig, limit).fsm # s
    IN  {0} \cup (IF s.state = "IDLE"
                  THEN (IF pauses > 0 THEN {BigMs} ELSE {})
                  ELSE (IF busy THEN {} ELSE {StepMs}))

\* The step from s to t is the one in which complete_feed() ran: only
\* complete_feed() leaves FEED_POST_MEASURE_RESERVOIR for IDLE in update().
Completes(s, t) == s.state = "FEED_POST_MEASURE_RESERVOIR" /\ t.state = "IDLE"

\* The dispensed weight of the feed just completed, from the four weights the
\* object holds.
Dispensed(t) == estimate_dispensed_weight_grams(t).grams

\* The step from s to t is the one in which update() gave up a feed cycle
\* before the motor ran: only the sensor retry leaves a weighing before the
\* motor run for IDLE in update().
Aborts(s, t) ==
    /\ s.state \in {"FEED_PRE_MEASURE_RESERVOIR", "FEED_PRE_MEASURE_BOWL"}
    /\ t.state = "IDLE"

\* since_end after a call of update() that took the object from s to t.
AttemptClock(s, t, delta_millis) ==
    IF Completes(s, t) THEN [ms |-> 0, how |-> "complete"]
    ELSE IF Aborts(s, t) THEN [ms |-> 0, how |-> "abort"]
    ELSE [since_end EXCEPT !.ms = SatAdd(@, delta_millis, FeedCap)]

Streak(s, t) ==
    IF ~Completes(s, t) THEN low_streak
    ELSE IF Dispensed(t) <= FEED_JAM_WEIGHT THEN low_streak + 1
    ELSE 0

\* motor_on after a call of update() that found the object in s,
\* delta_millis after the call before: the pin kept the level the call before
\* wrote for that long.  A run of the motor begins with the call that writes
\* the pin high; it is a limp run if that call found error_limit_switch set.
MotorOn(s, delta_millis) ==
    IF pin_motor
    THEN [motor_on EXCEPT !.ms = SatAdd(@, delta_millis, RunCap),
                          !.tick = IF delta_millis > @ THEN delta_millis
                                   ELSE @]
    ELSE [ms |-> 0, limp |-> s.error_limit_switch, tick |-> 0]

\* One iteration of loop(): fsm.update().
Tick ==
    /\ pc.at = "main"
    /\ \E limit \in Limits(hw, fsm.state) :
       \E delta_millis \in Elapsed(fsm, hx711, limit) :
          LET u == update(fsm, delta_millis, HX711_is_ready(hx711), hx711,
                          limit)
          IN  /\ fsm' = u.fsm
              /\ pin_motor' = u.motor
              /\ motor_on' = MotorOn(fsm, delta_millis)
              /\ NewSignal(u.fsm)
              /\ pauses' = IF delta_millis = BigMs THEN pauses - 1 ELSE pauses
              /\ last_call' = Call("update", delta_millis)
              /\ low_streak' = Streak(fsm, u.fsm)
              /\ since_end' = AttemptClock(fsm, u.fsm, delta_millis)
              /\ limit_seen' = limit_seen
              /\ clock' = clock
    /\ UNCHANGED <<pc, hw, budget>>

\* A command method called from loop() (MQTT) or from Ui::update() (buttons),
\* between two sampling sessions or right at the start of one.
Command(name, arg, s) ==
    /\ pc.at = "main"
    /\ budget > 0
    /\ fsm.loadcell.samples_remaining \in {0, NUM_SAMPLES}
    /\ fsm' = s
    /\ NewSignal(s)
    /\ last_call' = Call(name, arg)
    /\ low_streak' = IF name = "reset" THEN 0 ELSE low_streak
    /\ since_end' = since_end
    /\ limit_seen' = limit_seen
    /\ clock' = clock
    /\ motor_on' = motor_on
    /\ budget' = budget - 1
    /\ UNCHANGED <<pin_motor, pc, hw, pauses>>

Feed == Command("feed", 0, feed(fsm))

Reset == Command("reset", 0, reset(fsm))

EnterMaintenance == Command("enter_maintenance", 0, enter_maintenance(fsm))

TareReservoir == Command("tare_reservoir", 0, tare_reservoir(fsm))

TareBowl == Command("tare_bowl", 0, tare_bowl(fsm))

AdjustDeficit ==
    \E milligrams \in AdjustChoices :
        Command("adjust_deficit", milligrams, adjust_deficit(fsm, milligrams))

SetGramsPerDay ==
    \E new_grams_per_day \in GramsChoices :
        Command("set_grams_per_day", new_grams_per_day,
                set_grams_per_day(fsm, new_grams_per_day))

Next ==
    \/ Tick
    \/ Feed
    \/ Reset
    \/ EnterMaintenance
    \/ TareReservoir
    \/ TareBowl
    \/ AdjustDeficit
    \/ SetGramsPerDay

Spec == Init /\ [][Next]_vars

----------------------------------------------------------------------------
(* Longer runs with working hardware: up to three scheduled feeds and two  *)
(* commands of the operator.                                               *)

OperatorInit ==
    /\ InitObject
    /\ hw = "good"
    /\ budget = MaxOperatorCommands
    /\ pauses = MaxOperatorPauses

OperatorNext ==
    \/ Tick
    \/ Feed
    \/ Reset
    \/ EnterMaintenance

OperatorSpec == OperatorInit /\ [][OperatorNext]_vars

----------------------------------------------------------------------------
(* update() followed through its deficit loop one iteration at a time,     *)
(* with grams_per_day set to any value set_grams_per_day() takes.          *)

AccrueInit ==
    /\ InitObject
    /\ hw = "good"
    /\ budget = MaxAccrueCalls
    /\ pauses = 0

SetGramsPerDayAny ==
    \E new_grams_per_day \in AccrueGrams :
        Command("set_grams_per_day", new_grams_per_day,
                set_grams_per_day(fsm, new_grams_per_day))

UpdateEnter ==
    /\ pc.at = "main"
    /\ budget > 0
    /\ \E delta_millis \in AccrueDeltas :
          /\ fsm' = update_enter(fsm, delta_millis, HX711_is_ready(hx711),
                                 hx711)
          /\ pc' = [at |-> "loop", delta_millis |-> delta_millis, n |-> 0]
    /\ budget' = budget - 1
    /\ UNCHANGED <<hx711, pin_motor, last_call, low_streak, since_end,
                   limit_seen, clock,
                   motor_on, hw, pauses>>

\* while (deficit_ms_remain < 0): one more iteration.
LoopIter ==
    /\ pc.at = "loop"
    /\ fsm.deficit_ms_remain < 0
    /\ pc.n < MaxLoopIters
    /\ fsm' = accrue_step(fsm)
    /\ pc' = [pc EXCEPT !.n = @ + 1]
    /\ UNCHANGED <<hx711, pin_motor, last_call, low_streak, since_end,
                   limit_seen, clock, motor_on, hw, budget, pauses>>

\* The loop is left and update() runs to its end.
UpdateLeave ==
    /\ pc.at = "loop"
    /\ fsm.deficit_ms_remain >= 0
    /\ \E limit \in Limits(hw, fsm.state) :
          LET u == update_rest(fsm, pc.delta_millis, limit)
          IN  /\ fsm' = u.fsm
              /\ pin_motor' = u.motor
              /\ motor_on' = MotorOn(fsm, pc.delta_millis)
              /\ NewSignal(u.fsm)
              /\ low_streak' = Streak(fsm, u.fsm)
              /\ since_end' = AttemptClock(fsm, u.fsm, pc.delta_millis)
              /\ limit_seen' = limit_seen
              /\ clock' = clock
    /\ last_call' = Call("update", pc.delta_millis)
    /\ pc' = Outside
    /\ UNCHANGED <<hw, budget, pauses>>

AccrueNext ==
    \/ SetGramsPerDayAny
    \/ UpdateEnter
    \/ LoopIter
    \/ UpdateLeave

AccrueSpec == AccrueInit /\ [][AccrueNext]_vars

----------------------------------------------------------------------------
(* Runs from any state of the sequencer, with hardware that works, time    *)
(* that advances with every call, and no commands.                         *)

Modes == {"OPERATIONAL", "MAINTENANCE", "JAMMED"}

FlagSets == {{}, {"error_loadcell_timeout"}, {"error_reservoir_stddev"},
             {"error_limit_switch"}, {"error_power_loss"}, ErrorFlagNames}

\* The object on entry to state st, with the given flags set, mode and
\* retry counters.
Entered(st, flags, mode, retries) ==
    transition([StateMachine_begin EXCEPT
                   !.error_reservoir_stddev = "error_reservoir_stddev" \in flags,
                   !.error_bowl_stddev = "error_bowl_stddev" \in flags,
                   !.error_loadcell_timeout = "error_loadcell_timeout" \in flags,
                   !.error_loadcell_disagree = "error_loadcell_disagree" \in flags,
                   !.error_loadcell_unreasonable =
                       "error_loadcell_unreasonable" \in flags,
                   !.error_limit_switch = "error_limit_switch" \in flags,
                   !.error_power_loss = "error_power_loss" \in flags,
                   !.maintenance_mode = mode,
                   !.feed_sensor_retries = retries,
                   !.feed_jammed_retries = retries],
               st)

LiveInit ==
    /\ \E st \in States, flags \in FlagSets, mode \in Modes,
          retries \in {0, FEED_MAX_RETRIES} :
          /\ fsm = Entered(st, flags, mode, retries)
          /\ hx711 \in Signals("good", st)
          /\ last_call = [name |-> "begin", arg |-> 0, state |-> st,
                          mode |-> mode]
    /\ pin_motor = FALSE
    /\ low_streak = 0
    /\ since_end = NoAttempt
    /\ limit_seen = NoLimit
    /\ clock = Booted
    /\ motor_on = NotRunning
    /\ pc = Outside
    /\ hw = "good"
    /\ budget = MaxLiveTicks
    /\ pauses = 0

\* update() called LiveMs after the call before, until the object is in Idle;
\* budget counts the calls that remain.
LiveTick ==
    /\ pc.at = "main"
    /\ fsm.state # "IDLE"
    /\ budget >= 0
    /\ \E limit \in Limits(hw, fsm.state) :
          LET u == update(fsm, LiveMs, HX711_is_ready(hx711), hx711, limit)
          IN  /\ fsm' = u.fsm
              /\ pin_motor' = u.motor
              /\ motor_on' = MotorOn(fsm, LiveMs)
              /\ NewSignal(u.fsm)
              /\ low_streak' = Streak(fsm, u.fsm)
              /\ since_end' = AttemptClock(fsm, u.fsm, LiveMs)
              /\ limit_seen' = limit_seen
              /\ clock' = clock
    /\ last_call' = Call("update", LiveMs)
    /\ budget' = budget - 1
    /\ UNCHANGED <<pc, hw, pauses>>

\* What every LiveTick step does to the count of calls, and no other step
\* does; it is enabled exactly when LiveTick is (update() is defined in
\* every state).
CallCounted ==
    /\ fsm.state # "IDLE"
    /\ budget >= 0
    /\ budget' = budget - 1

\* loop() runs for ever: a call of update() that can be made is made.
LiveSpec == LiveInit /\ [][LiveTick]_vars /\ WF_budget(CallCounted)

----------------------------------------------------------------------------
(* Runs that follow one feed cycle from feed() to Idle tick by tick, with  *)
(* no further commands: with a limit switch that may read anything, or     *)
(* with load cells that pick up noise or stop answering.                   *)

MotorConditions == {"switch", "noisy", "failing"}

\* The run states that look at the limit switch after the debounce time.
DebouncedStates == {"FEED_RUN_A", "FEED_RUN_B"}

MotorInit ==
    /\ \E flags \in {{}, {"error_limit_switch"}} :
          fsm = Entered("FEED_PRE_MEASURE_WAIT", flags, "OPERATIONAL", 0)
    /\ hx711 = QuietSignal
    /\ pin_motor = FALSE
    /\ last_call = [name |-> "feed", arg |-> 0, state |-> "IDLE",
                    mode |-> "OPERATIONAL"]
    /\ low_streak = 0
    /\ since_end = NoAttempt
    /\ limit_seen = NoLimit
    /\ clock = Booted
    /\ motor_on = NotRunning
    /\ pc = Outside
    /\ hw \in MotorConditions
    /\ budget = 0
    /\ pauses = 0

\* delta_millis of the next call of update(): a call that has work to do
\* follows at once; otherwise a second passes, or, in a debounced state
\* that was entered no longer ago than the debounce time, FineMs.
MotorElapsed(s, sig, limit) ==
    LET busy == update(s, 0, HX711_is_ready(sig), sig, limit).fsm # s
    IN  IF busy THEN {0}
        ELSE IF s.state \in DebouncedStates
                /\ s.millis_since_transition <= DEBOUNCE_MILLIS
        THEN {FineMs, CoarseMs}
        ELSE {CoarseMs}

\* limit_seen after a call of update() that read `limit` on PIN_LIMIT,
\* delta_millis after the call before.
LimitSeen(limit, delta_millis) ==
    [level |-> limit,
     ms |-> SatAdd(IF limit = limit_seen.level THEN limit_seen.ms ELSE 0,
                   delta_millis, 2 * DEBOUNCE_MILLIS)]

\* One iteration of loop(): fsm.update(), until the cycle is over.
MotorTick ==
    /\ pc.at = "main"
    /\ fsm.state # "IDLE"
    /\ \E limit \in Limits(hw, fsm.state) :
       \E delta_millis \in MotorElapsed(fsm, hx711, limit) :
          LET u == update(fsm, delta_millis, HX711_is_ready(hx711), hx711,
                          limit)
          IN  /\ fsm' = u.fsm
              /\ pin_motor' = u.motor
              /\ motor_on' = MotorOn(fsm, delta_millis)
              /\ NewSignal(u.fsm)
              /\ last_call' = Call("update", delta_millis)
              /\ low_streak' = Streak(fsm, u.fsm)
              /\ since_end' = AttemptClock(fsm, u.fsm, delta_millis)
              /\ limit_seen' = IF fsm.state \in RunStates
                               THEN LimitSeen(limit, delta_millis)
                               ELSE NoLimit
    /\ UNCHANGED <<clock, pc, hw, budget, pauses>>

MotorSpec == MotorInit /\ [][MotorTick]_vars

----------------------------------------------------------------------------
(* Runs with a cat that now and then disturbs the weighings before the     *)
(* motor runs: feed cycles started by update() and by the operator in      *)
(* Idle, given up on a noisy weighing or carried through.                  *)

NoisyInit ==
    /\ InitObject
    /\ hw = "cat"
    /\ budget = MaxNoisyCommands
    /\ pauses = MaxNoisyPauses

\* The operator asks for a feed while the feeder is idle.
FeedInIdle ==
    /\ fsm.state = "IDLE"
    /\ Feed

NoisyNext ==
    \/ Tick
    \/ FeedInIdle

NoisySpec == NoisyInit /\ [][NoisyNext]_vars

----------------------------------------------------------------------------
(* The sampler on its own: sessions started at any time, also while one is *)
(* running, on either channel, with and without taring, with the HX711     *)
(* ready or not at each call of update().  The object is the loadcell      *)
(* member of fsm; pc.n counts the readings taken since the last start().   *)

SamplerSignals(sensor) ==
    [level : IF sensor = "RESERVOIR" THEN ReservoirLevels ELSE BowlLevels,
     noise : NoiseLevels,
     alive : {TRUE}]

SamplerInit ==
    /\ fsm = [StateMachine_begin EXCEPT !.loadcell = Loadcell_init]
    /\ hx711 = QuietSignal
    /\ pin_motor = FALSE
    /\ last_call = [name |-> "begin", arg |-> 0, state |-> "IDLE",
                    mode |-> "OPERATIONAL"]
    /\ low_streak = 0
    /\ since_end = NoAttempt
    /\ limit_seen = NoLimit
    /\ clock = Booted
    /\ motor_on = NotRunning
    /\ pc = Outside
    /\ hw = "good"
    /\ budget = MaxSamplerCalls
    /\ pauses = 0

\* loadcell.set_tare_raw(), as StateMachine::begin() calls it.
SamplerSetTare ==
    /\ budget > 0
    /\ \E sensor \in {"RESERVOIR", "BOWL"} :
          fsm' = [fsm EXCEPT !.loadcell =
                     Loadcell_set_tare_raw(@, sensor,
                         IF sensor = "RESERVOIR" THEN TARE_RESERVOIR_BEGIN
                         ELSE TARE_BOWL_BEGIN)]
    /\ last_call' = Call("set_tare_raw", 0)
    /\ budget' = budget - 1
    /\ UNCHANGED <<hx711, pin_motor, low_streak, since_end, limit_seen, clock,
                   motor_on, pc,
                   hw, pauses>>

\* loadcell.start(target_sensor, tare); the signal of the new session is
\* chosen here.  last_call.arg tells how many readings the session that was
\* running had taken.
SamplerStart ==
    /\ budget > 0
    /\ \E target_sensor \in {"RESERVOIR", "BOWL"}, tare \in BOOLEAN :
          /\ fsm' = [fsm EXCEPT !.loadcell =
                        Loadcell_start(@, target_sensor, tare)]
          /\ hx711' \in SamplerSignals(target_sensor)
    /\ last_call' = Call("start", IF Loadcell_is_busy(fsm.loadcell)
                                  THEN pc.n ELSE 0)
    /\ pc' = [pc EXCEPT !.n = 0]
    /\ budget' = budget - 1
    /\ UNCHANGED <<pin_motor, low_streak, since_end, limit_seen, clock,
                   motor_on, hw, pauses>>

\* loadcell.update(), with the HX711 ready or not; last_call.arg tells
\* whether it was ready.
SamplerUpdate ==
    /\ \E ready \in BOOLEAN :
          /\ fsm' = [fsm EXCEPT !.loadcell = Loadcell_update(@, ready, hx711)]
          /\ last_call' = Call("update", IF ready THEN 1 ELSE 0)
    /\ pc' = [pc EXCEPT !.n =
                 IF fsm'.loadcell.samples_remaining
                        # fsm.loadcell.samples_remaining
                 THEN @ + 1 ELSE @]
    /\ UNCHANGED <<hx711, pin_motor, low_streak, since_end, limit_seen, clock,
                   motor_on, hw,
                   budget, pauses>>

SamplerNext ==
    \/ SamplerSetTare
    \/ SamplerStart
    \/ SamplerUpdate

SamplerSpec == SamplerInit /\ [][SamplerNext]_vars

----------------------------------------------------------------------------
(* estimate_dispensed_weight_grams() applied to every combination of the   *)
(* four weighings of a feed cycle and of the error flags.  Weights are in  *)
(* micrograms.                                                             *)

Gram == 1000000

ReservoirPreChoices == {500 * Gram, 491 * Gram, 520 * Gram}
ReservoirPostChoices == {491 * Gram, 500 * Gram, 490 * Gram, 493 * Gram,
                         502 * Gram}
BowlPreChoices == {10 * Gram, 19 * Gram}
BowlPostChoices == {19 * Gram, 10 * Gram + Gram \div 2, 10 * Gram, 14 * Gram,
                    40 * Gram, 37 * Gram, 8 * Gram}

EstimateInit ==
    /\ \E flags \in FlagSets, rpre \in ReservoirPreChoices,
          rpost \in ReservoirPostChoices, bpre \in BowlPreChoices,
          bpost \in BowlPostChoices :
          fsm = [Entered("FEED_POST_MEASURE_RESERVOIR", flags, "OPERATIONAL",
                         0)
                    EXCEPT !.feed_reservoir_pre = rpre,
                           !.feed_reservoir_post = rpost,
                           !.feed_bowl_pre = bpre,
                           !.feed_bowl_post = bpost]
    /\ hx711 = QuietSignal
    /\ pin_motor = FALSE
    /\ last_call = [name |-> "begin", arg |-> 0,
                    state |-> "FEED_POST_MEASURE_RESERVOIR",
                    mode |-> "OPERATIONAL"]
    /\ low_streak = 0
    /\ since_end = NoAttempt
    /\ limit_seen = NoLimit
    /\ clock = Booted
    /\ motor_on = NotRunning
    /\ pc = Outside
    /\ hw = "good"
    /\ budget = 0
    /\ pauses = 0

\* One call of estimate_dispensed_weight_grams(); last_call.arg holds the
\* value it returned.
Estimate ==
    /\ last_call.name = "begin"
    /\ LET e == estimate_dispensed_weight_grams(fsm)
       IN  /\ fsm' = e.fsm
           /\ last_call' = Call("estimate_dispensed_weight_grams", e.grams)
    /\ UNCHANGED <<hx711, pin_motor, low_streak, since_end, limit_seen, clock,
                   motor_on, pc,
                   hw, budget, pauses>>

EstimateSpec == EstimateInit /\ [][Estimate]_vars

----------------------------------------------------------------------------
(* The deficit over a day: the object in Maintenance, where no feed starts  *)
(* by itself, with grams_per_day fixed, and calls of update() after short   *)
(* and long times that add up to a day in several ways.  since_end.ms is    *)
(* the time since begin().                                                  *)

DripGrams == {1, 7, 60, 150}

DripDeltas == {1, 575, 1439, 43199999, 43200000, 86400000}

DripInit ==
    /\ \E new_grams_per_day \in DripGrams :
          fsm = enter_maintenance(
                    set_grams_per_day(StateMachine_begin, new_grams_per_day))
    /\ hx711 = QuietSignal
    /\ pin_motor = FALSE
    /\ last_call = [name |-> "enter_maintenance", arg |-> 0, state |-> "IDLE",
                    mode |-> "OPERATIONAL"]
    /\ low_streak = 0
    /\ since_end = NoAttempt
    /\ limit_seen = NoLimit
    /\ clock = Booted
    /\ motor_on = NotRunning
    /\ pc = Outside
    /\ hw = "good"
    /\ budget = MaxDripTicks
    /\ pauses = 0

DripTick ==
    /\ pc.at = "main"
    /\ budget > 0
    /\ \E delta_millis \in DripDeltas :
          /\ since_end.ms + delta_millis <= DripMs
          /\ LET u == update(fsm, delta_millis, HX711_is_ready(hx711), hx711,
                             FALSE)
             IN  /\ fsm' = u.fsm
                 /\ pin_motor' = u.motor
                 /\ motor_on' = MotorOn(fsm, delta_millis)
                 /\ NewSignal(u.fsm)
                 /\ low_streak' = Streak(fsm, u.fsm)
          /\ last_call' = Call("update", delta_millis)
          /\ since_end' = [since_end EXCEPT !.ms = @ + delta_millis]
    /\ limit_seen' = limit_seen
    /\ clock' = clock
    /\ budget' = budget - 1
    /\ UNCHANGED <<pc, hw, pauses>>

DripSpec == DripInit /\ [][DripTick]_vars

----------------------------------------------------------------------------
(* Runs across the wrap of millis(): the program has run for almost 2^32    *)
(* ms, the object is idle and was updated just now, and calls of update()   *)
(* follow at once, after short times and after a time above 2^16 ms.        *)

WrapStarts == {U32(0), [hi |-> WORD16 - 1, lo |-> 0],
               [hi |-> WORD16 - 2, lo |-> WORD16 - 536],
               [hi |-> WORD16 - 1, lo |-> WORD16 - 1]}

WrapDeltas == {0, 1, 536, 70000}

WrapInit ==
    /\ \E start \in WrapStarts :
          /\ fsm = [reset(StateMachine_begin) EXCEPT
                        !.update_prev_millis = start]
          /\ clock = [millis |-> start, passed |-> 0]
    /\ motor_on = NotRunning
    /\ hx711 = QuietSignal
    /\ pin_motor = FALSE
    /\ last_call = [name |-> "reset", arg |-> 0, state |-> "IDLE",
                    mode |-> "OPERATIONAL"]
    /\ low_streak = 0
    /\ since_end = NoAttempt
    /\ limit_seen = NoLimit
    /\ pc = Outside
    /\ hw = "good"
    /\ budget = MaxWrapTicks
    /\ pauses = 0

\* Time passes, then loop() calls fsm.update().
WrapTick ==
    /\ pc.at = "main"
    /\ budget > 0
    /\ \E passed \in WrapDeltas :
       \E limit \in Limits(hw, fsm.state) :
          LET current_millis == U32Add(clock.millis, passed)
              u == update_at(fsm, current_millis, HX711_is_ready(hx711),
                             hx711, limit)
          IN  /\ clock' = [millis |-> current_millis, passed |-> passed]
              /\ fsm' = u.fsm
              /\ pin_motor' = u.motor
              /\ motor_on' = MotorOn(fsm, u.delta_millis)
              /\ NewSignal(u.fsm)
              /\ last_call' = Call("update", u.delta_millis)
              /\ low_streak' = Streak(fsm, u.fsm)
              /\ since_end' = AttemptClock(fsm, u.fsm, u.delta_millis)
    /\ limit_seen' = limit_seen
    /\ budget' = budget - 1
    /\ UNCHANGED <<pc, hw, pauses>>

WrapSpec == WrapInit /\ [][WrapTick]_vars

----------------------------------------------------------------------------
(* Properties.                                                             *)

ErrorFlags == ErrorFlagNames

\* C1: from every state of the sequencer, with any of the flag sets, modes
\* and retry counters, calls of update() with time advancing, no commands
\* and working hardware bring the object to Idle, within MaxLiveTicks calls.
EventuallyIdle == <>(fsm.state = "IDLE" /\ budget >= 0)

\* A whole feed cycle has run from FEED_PRE_MEASURE_WAIT to its completion.
CycleRanToIdle ==
    /\ hw = "good"
    /\ budget < MaxLiveTicks - 100
    /\ budget >= 0
    /\ last_call.name = "update"
    /\ last_call.state = "FEED_POST_MEASURE_RESERVOIR"
    /\ fsm.state = "IDLE"
    /\ fsm.feed_report.result = "SUCCESS"

\* C3 as stated: the deficit loop makes a bounded number of increments in
\* a call of update(), at most one for each millisecond that has elapsed,
\* for every grams_per_day > 0 that set_grams_per_day() takes.
LoopBounded ==
    (pc.at = "loop" /\ fsm.grams_per_day > 0) => pc.n <= pc.delta_millis

\* C6: reset() is idempotent.  From every reachable state of the object,
\* reset() applied twice gives the object that reset() applied once gives,
\* and that object is in IDLE, OPERATIONAL, with state_retries,
\* feed_jammed_retries and feed_sensor_retries all 0 and every error flag
\* cleared.
ResetIdempotent ==
    LET once == reset(fsm)
    IN  /\ reset(once) = once
        /\ once.state = "IDLE"
        /\ once.maintenance_mode = "OPERATIONAL"
        /\ once.state_retries = 0
        /\ once.feed_jammed_retries = 0
        /\ once.feed_sensor_retries = 0
        /\ \A f \in ErrorFlags : ~once[f]

\* reset() was called while the motor was running.
ResetDuringRun ==
    /\ last_call.name = "reset"
    /\ last_call.state = "FEED_RUN_A"
    /\ fsm = reset(fsm)

\* The priority list of the feed-block evaluation, as a function of the
\* four values it depends on.
BlockReason(mode, deficit, threshold, since_attempt) ==
    CASE mode = "MAINTENANCE" -> "MAINTENANCE"
      [] mode # "MAINTENANCE" /\ mode = "JAMMED" -> "JAMMED"
      [] mode \notin {"MAINTENANCE", "JAMMED"} /\ deficit < threshold ->
             "DEFICIT"
      [] mode \notin {"MAINTENANCE", "JAMMED"} /\ deficit >= threshold
         /\ since_attempt < FEED_COOLDOWN_MILLIS -> "COOLDOWN"
      [] OTHER -> "NOT_BLOCKED"

\* C7: need_to_feed() returns the first reason that applies, in the order
\* Maintenance, Jammed, Deficit, Cooldown, and NotBlocked otherwise; its
\* result is a function of maintenance_mode, deficit_mg,
\* deficit_threshold_mg and millis_since_feed_attempt alone.
NeedToFeedPriority ==
    need_to_feed(fsm) = BlockReason(fsm.maintenance_mode, fsm.deficit_mg,
                                    deficit_threshold_mg,
                                    fsm.millis_since_feed_attempt)

\* update() evaluated need_to_feed() in Idle while maintenance mode, a
\* negative deficit and a running cooldown all applied.
SeveralReasonsApply ==
    /\ last_call.name = "update"
    /\ last_call.state = "IDLE"
    /\ fsm.state = "IDLE"
    /\ fsm.maintenance_mode = "MAINTENANCE"
    /\ fsm.deficit_mg < deficit_threshold_mg
    /\ fsm.millis_since_feed_attempt < FEED_COOLDOWN_MILLIS

\* The object as the switch in update() sees it in a call with the given
\* delta_millis, as far as need_to_feed() is concerned.
AtSwitch(delta_millis) ==
    update_timers(update_deficit(fsm, delta_millis), delta_millis)

\* C8: a call of update() that finds the object in Idle and not blocked
\* enters FEED_PRE_MEASURE_WAIT in that call; and update() starts a feed
\* cycle only from Idle and only when need_to_feed() gives NOT_BLOCKED.
AutomaticFeeding ==
    [][last_call'.name = "update" =>
        LET blocked == need_to_feed(AtSwitch(last_call'.arg)) # "NOT_BLOCKED"
        IN  /\ (fsm.state = "IDLE"
                  /\ (~blocked \/ need_to_feed(fsm) = "NOT_BLOCKED"))
                => fsm'.state = "FEED_PRE_MEASURE_WAIT"
            /\ (fsm'.state = "FEED_PRE_MEASURE_WAIT"
                  /\ fsm.state # "FEED_PRE_MEASURE_WAIT")
                => (fsm.state = "IDLE" /\ ~blocked)
            /\ (fsm.state = "FEED_PRE_MEASURE_WAIT"
                  /\ fsm'.state = "FEED_PRE_MEASURE_WAIT")
                => fsm'.state_retries = fsm.state_retries]_vars

\* update() started a feed cycle from Idle although a sensor refresh was due.
FeedBeforeRefresh ==
    /\ last_call.name = "update"
    /\ last_call.state = "IDLE"
    /\ fsm.state = "FEED_PRE_MEASURE_WAIT"
    /\ fsm.millis_since_reservoir_read > SENSOR_READ_COOLDOWN

\* C10: the seven error flags are sticky.  A flag that is true stays true
\* across update(), feed(), tare_reservoir(), tare_bowl(), adjust_deficit()
\* and set_grams_per_day(); a flag goes from true to false only in a call of
\* reset() or enter_maintenance().
StickyFlags ==
    [][\A f \in ErrorFlags :
          (fsm[f] /\ ~fsm'[f])
              => last_call'.name \in {"reset", "enter_maintenance"}]_vars

\* A flag raised by a fault is still set after a command other than reset()
\* and enter_maintenance().
FlagSurvivesCommand ==
    /\ last_call.name \in {"feed", "tare_reservoir", "tare_bowl",
                            "adjust_deficit", "set_grams_per_day"}
    /\ fsm.error_limit_switch

\* C2: over calls of update(), deficit_mg never decreases except in the
\* call in which complete_feed() runs; in that call it changes by the
\* milligrams accrued for the call's elapsed time less the milligrams of
\* the Success feed report (feed_report.arg).
DeficitAccounting ==
    [][last_call'.name = "update" =>
        LET accrued == update_deficit(fsm, last_call'.arg).deficit_mg
        IN  /\ accrued >= fsm.deficit_mg
            /\ fsm'.deficit_mg =
                   IF Completes(fsm, fsm')
                   THEN accrued - fsm'.feed_report.arg
                   ELSE accrued
            /\ Completes(fsm, fsm') => fsm'.feed_report.result = "SUCCESS"]_vars

\* complete_feed() ran in a call of update() for which time had elapsed.
FeedCompletedLate ==
    /\ last_call.name = "update"
    /\ last_call.state = "FEED_POST_MEASURE_RESERVOIR"
    /\ last_call.arg > 0
    /\ fsm.state = "IDLE"
    /\ fsm.feed_report = [result |-> "SUCCESS", arg |-> 9000]

\* C2 as stated: in the call in which complete_feed() runs, deficit_mg
\* decreases by exactly feed_report.arg.
DeficitDropsByReportExactly ==
    [][last_call'.name = "update" =>
        IF Completes(fsm, fsm')
        THEN fsm'.deficit_mg = fsm.deficit_mg - fsm'.feed_report.arg
        ELSE fsm'.deficit_mg >= fsm.deficit_mg]_vars

\* A step that starts a feed cycle: feed() was called, by the operator or
\* by update().
StartsCycle ==
    /\ fsm'.state = "FEED_PRE_MEASURE_WAIT"
    /\ fsm.state # "FEED_PRE_MEASURE_WAIT" \/ last_call'.name = "feed"

\* After the third completed feed in a row at or below the jam weight the
\* mode is JAMMED.
ThirdLowFeedJams ==
    (last_call'.name = "update" /\ Completes(fsm, fsm'))
        => /\ fsm'.feed_jammed_retries = low_streak'
           /\ low_streak' >= FEED_MAX_RETRIES
                  => fsm'.maintenance_mode = "JAMMED"

\* C4: after three completed feeds in a row (no reset() between them) each
\* at or below 30% of the nominal weight the mode is JAMMED; while it is,
\* update() starts no feed cycle (need_to_feed() gives JAMMED), and the mode
\* stays JAMMED until reset(), enter_maintenance(), a tare command, or the
\* completion of a manually started feed with an acceptable weight.
JamEscalation ==
    [][/\ ThirdLowFeedJams
       /\ (fsm.maintenance_mode = "JAMMED" /\ last_call'.name = "update")
              => /\ ~StartsCycle
                 /\ fsm.state = "IDLE"
                        => need_to_feed(AtSwitch(last_call'.arg)) = "JAMMED"
       /\ (fsm.maintenance_mode = "JAMMED"
              /\ fsm'.maintenance_mode # "JAMMED")
              => \/ /\ last_call'.name = "reset"
                    /\ fsm'.maintenance_mode = "OPERATIONAL"
                 \/ /\ last_call'.name \in {"enter_maintenance",
                                             "tare_reservoir", "tare_bowl"}
                    /\ fsm'.maintenance_mode = "MAINTENANCE"
                 \/ /\ last_call'.name = "update"
                    /\ Completes(fsm, fsm')
                    /\ Dispensed(fsm') > FEED_JAM_WEIGHT
                    /\ fsm'.maintenance_mode = "OPERATIONAL"]_vars

\* Three low feeds in a row have led to JAMMED, the cooldown has run out,
\* and update() was called in Idle.
JammedBlocksUpdate ==
    /\ low_streak = FEED_MAX_RETRIES
    /\ fsm.maintenance_mode = "JAMMED"
    /\ last_call.name = "update"
    /\ last_call.state = "IDLE"
    /\ last_call.mode = "JAMMED"
    /\ fsm.state = "IDLE"
    /\ fsm.millis_since_feed_attempt >= FEED_COOLDOWN_MILLIS
    /\ fsm.deficit_mg >= deficit_threshold_mg

\* C4 as stated: while the mode is JAMMED no feed cycle starts at all.
NoCycleWhileJammed ==
    [][/\ ThirdLowFeedJams
       /\ fsm.maintenance_mode = "JAMMED" => ~StartsCycle]_vars

\* C5: a completed feed with a dispensed weight above 30% of the nominal
\* weight sets feed_jammed_retries to 0 and takes the mode from JAMMED to
\* OPERATIONAL; in OPERATIONAL and MAINTENANCE it leaves the mode as it is.
JamRecovery ==
    [][(last_call'.name = "update" /\ Completes(fsm, fsm')
          /\ Dispensed(fsm') > FEED_JAM_WEIGHT)
       => /\ fsm'.feed_jammed_retries = 0
          /\ fsm'.maintenance_mode =
                 IF fsm.maintenance_mode = "JAMMED" THEN "OPERATIONAL"
                 ELSE fsm.maintenance_mode]_vars

\* A feed started by hand in JAMMED has completed with 9 g.
RecoveredFromJam ==
    /\ last_call.name = "update"
    /\ last_call.state = "FEED_POST_MEASURE_RESERVOIR"
    /\ last_call.mode = "JAMMED"
    /\ fsm.state = "IDLE"
    /\ fsm.maintenance_mode = "OPERATIONAL"
    /\ fsm.feed_jammed_retries = 0
    /\ fsm.feed_report = [result |-> "SUCCESS", arg |-> 9000]

\* C9 as stated: in MAINTENANCE the completion of a feed leaves deficit_mg
\* as it is (apart from what accrues for the elapsed time of the call).
MaintenanceFeedKeepsDeficit ==
    [][(last_call'.name = "update" /\ Completes(fsm, fsm')
          /\ fsm.maintenance_mode = "MAINTENANCE")
       => fsm'.deficit_mg =
              update_deficit(fsm, last_call'.arg).deficit_mg]_vars

\* The conditions of the error report, most urgent first, each with the
\* message and the severity reported for it.
ReportOrder ==
    << <<fsm.error_limit_switch, "Motor timeout", "ERROR">>,
       <<fsm.error_loadcell_timeout, "Sensor timeout", "ERROR">>,
       <<fsm.error_reservoir_stddev, "Reservoir noisy", "ERROR">>,
       <<fsm.error_bowl_stddev, "Bowl noisy", "ERROR">>,
       <<fsm.error_loadcell_disagree, "Sensor disagree", "ERROR">>,
       <<fsm.error_loadcell_unreasonable, "Sensor sanity", "ERROR">>,
       <<fsm.error_power_loss, "Power loss", "ERROR">>,
       <<fsm.maintenance_mode = "JAMMED", "Jammed/empty", "ERROR">>,
       <<fsm.feed_jammed_retries # 0, "Jammed/empty?", "WARNING">>,
       <<fsm.reservoir_mean < RESERVOIR_LOW_GRAMS, "Reservoir low",
         "WARNING">>,
       <<TRUE, "nullptr", "OKAY">> >>

FirstMatch ==
    CHOOSE i \in 1..Len(ReportOrder) :
        ReportOrder[i][1] /\ \A j \in 1..(i - 1) : ~ReportOrder[j][1]

\* C11: get_error_report() reports the first condition that holds, in the
\* order limit switch fault, sensor timeout, reservoir noisy, bowl noisy,
\* sensors disagree, reading unreasonable, power loss, jammed mode, jam
\* suspected, reservoir low; the severity is ERROR down to jammed mode,
\* WARNING for the next two, and OKAY with no message when none holds.
ErrorReportPriority ==
    get_error_report(fsm) = [message |-> ReportOrder[FirstMatch][2],
                             severity |-> ReportOrder[FirstMatch][3]]

\* The motor timed out after a power loss and the feed that followed
\* dispensed too little: three conditions hold, the first is reported.
SeveralErrorsHold ==
    /\ fsm.error_limit_switch
    /\ fsm.error_power_loss
    /\ fsm.feed_jammed_retries # 0
    /\ get_error_report(fsm).message = "Motor timeout"

\* C12: the motor output follows the state that update() dispatches on.
\* After every call of update() the output is on if and only if the state
\* the call found (the one its switch handled) is one of FEED_RUN_SYNC,
\* FEED_RUN_A, FEED_RUN_B, FEED_RUN_C; a command leaves the output as it is.
MotorFollowsDispatchedState ==
    [][/\ last_call'.name = "update" =>
              pin_motor' = (fsm.state \in RunStates)
       /\ last_call'.name # "update" => pin_motor' = pin_motor]_vars

\* The call of update() that left the run states: the object is in
\* FEED_POST_WAIT and the motor output is still on.
MotorOnAfterRun ==
    /\ last_call.name = "update"
    /\ last_call.state \in RunStates
    /\ fsm.state = "FEED_POST_WAIT"
    /\ pin_motor

\* C12 as stated: after every call the motor output is on if and only if
\* the state the object is in is one of the four run states.
MotorOnIffRunState == pin_motor = (fsm.state \in RunStates)

NoisyWeighingExhausted ==
    /\ fsm.state \in PreMeasureStates
    /\ ~limp(fsm)
    /\ fsm.state_retries >= STATE_MAX_RETRIES
    /\ fsm.loadcell.samples_remaining = 1
    /\ hx711.alive
    /\ hx711.noise > 0

\* C15: the sensor retry.  When a weighing before the motor run is still
\* noisy after its repetitions in the state, then: while at most
\* FEED_MAX_RETRIES attempts in a row have been given up, the cycle is given
\* up, the count goes up by one, a SENSOR_RETRY feed report with the new
\* count as arg is recorded, the time since the last feed attempt is 0, the
\* object is in Idle, and the motor has not run in the cycle; after more
\* attempts than that the cycle goes on with the noise flag of the cell set.
SensorRetryAbort ==
    [][/\ fsm.state \in PreMeasureStates => ~pin_motor
       /\ (last_call'.name = "update" /\ NoisyWeighingExhausted
           /\ ~fsm'.error_loadcell_timeout) =>
             IF fsm.feed_sensor_retries <= FEED_MAX_RETRIES
             THEN /\ fsm'.state = "IDLE"
                  /\ fsm'.feed_sensor_retries = fsm.feed_sensor_retries + 1
                  /\ fsm'.feed_report =
                         [result |-> "SENSOR_RETRY",
                          arg |-> fsm.feed_sensor_retries + 1]
                  /\ fsm'.millis_since_feed_attempt = 0
                  /\ ~pin_motor'
                  /\ \A f \in ErrorFlagNames : fsm'[f] = fsm[f]
             ELSE /\ fsm'.state = IF fsm.state = "FEED_PRE_MEASURE_RESERVOIR"
                                  THEN "FEED_PRE_MEASURE_BOWL"
                                  ELSE "FEED_RUN_SYNC"
                  /\ fsm'.feed_report = fsm.feed_report
                  /\ fsm'.feed_sensor_retries = fsm.feed_sensor_retries
                  /\ IF fsm.state = "FEED_PRE_MEASURE_RESERVOIR"
                     THEN fsm'.error_reservoir_stddev
                     ELSE fsm'.error_bowl_stddev]_vars

\* A feed cycle was given up for the fourth time in a row.
SensorRetryAborted ==
    /\ last_call.name = "update"
    /\ last_call.state \in PreMeasureStates
    /\ fsm.state = "IDLE"
    /\ fsm.feed_report = [result |-> "SENSOR_RETRY",
                          arg |-> FEED_MAX_RETRIES + 1]
    /\ since_end = [ms |-> 0, how |-> "abort"]

\* C15 as stated: once the bound of FEED_MAX_RETRIES attempts given up has
\* been reached, a weighing before the motor run that is still noisy after
\* its repetitions ends the cycle with a SENSOR_RETRY report, in Idle.
AbortOnceBoundReached ==
    [][(last_call'.name = "update" /\ NoisyWeighingExhausted
        /\ ~fsm'.error_loadcell_timeout
        /\ fsm.feed_sensor_retries >= FEED_MAX_RETRIES) =>
          /\ fsm'.state = "IDLE"
          /\ fsm'.feed_report.result = "SENSOR_RETRY"]_vars

\* C16: a feed cycle given up counts as a feed attempt.  From the call of
\* update() that gave the cycle up, and until FEED_COOLDOWN_MILLIS have
\* passed since, need_to_feed() does not return NOT_BLOCKED and update()
\* starts no feed cycle from Idle.
CooldownAfterAbort ==
    [][/\ (since_end'.how = "abort"
           /\ since_end'.ms < FEED_COOLDOWN_MILLIS) =>
             need_to_feed(fsm') # "NOT_BLOCKED"
       /\ (last_call'.name = "update" /\ since_end.how = "abort"
           /\ fsm.state = "IDLE" /\ fsm'.state = "FEED_PRE_MEASURE_WAIT") =>
             since_end.ms + last_call'.arg >= FEED_COOLDOWN_MILLIS]_vars

\* update() started a feed cycle after one that was given up, once the
\* cooldown had passed.
AutoFeedAfterAbort ==
    /\ last_call.name = "update"
    /\ last_call.state = "IDLE"
    /\ fsm.state = "FEED_PRE_MEASURE_WAIT"
    /\ fsm.feed_report.result = "SENSOR_RETRY"
    /\ since_end.how = "abort"
    /\ since_end.ms >= FEED_COOLDOWN_MILLIS

Published(lc) ==
    <<lc.mean, lc.stddev, lc.mean_raw, lc.tare_reservoir, lc.tare_bowl>>

\* C18: the protocol of a sampling session.  start() leaves the sampler
\* busy with a session that has taken no reading, whatever was running.
\* update() takes at most one reading, and only when the HX711 is ready and
\* a session is running.  The sampler stops being busy in exactly the call
\* of update() that takes the NUM_SAMPLES-th reading since the last
\* start(); the statistics it then holds are those of the signal of that
\* session; the published values and the tare values change in no other
\* call of start() or update().
SamplerProtocol ==
    [][LET lc == fsm.loadcell
           lc2 == fsm'.loadcell
           taken == lc.samples_remaining - lc2.samples_remaining
           finishes == Loadcell_is_busy(lc) /\ ~Loadcell_is_busy(lc2)
       IN  /\ last_call'.name = "start" =>
                 /\ Loadcell_is_busy(lc2)
                 /\ lc2.samples_remaining = NUM_SAMPLES
                 /\ Published(lc2) = Published(lc)
           /\ last_call'.name = "update" =>
                 /\ taken \in {0, 1}
                 /\ taken = 1 => last_call'.arg = 1 /\ Loadcell_is_busy(lc)
                 /\ finishes <=> (taken = 1 /\ pc'.n = NUM_SAMPLES)
                 /\ ~Loadcell_is_busy(lc) => ~Loadcell_is_busy(lc2)
                 /\ ~finishes => Published(lc2) = Published(lc)
                 /\ finishes =>
                        /\ lc2.mean_raw - hx711.level \in {-1, 0, 1}
                        /\ lc2.sensor = lc.sensor]_vars

\* start() was called while a session was running that had taken readings.
SessionDiscarded ==
    /\ last_call.name = "start"
    /\ last_call.arg > 0
    /\ fsm.loadcell.samples_remaining = NUM_SAMPLES
    /\ pc.n = 0

\* The tare value of the channel a session measures, and of the other one.
ChannelTare(lc, sensor) ==
    IF sensor = "RESERVOIR" THEN lc.tare_reservoir ELSE lc.tare_bowl

OtherSensor(sensor) == IF sensor = "RESERVOIR" THEN "BOWL" ELSE "RESERVOIR"

\* C19: when a sampling session completes, the tare value of its channel
\* becomes the raw mean of the session, and the mean in grams 0, if the
\* session was started with apply_tare or the channel had no tare value
\* configured; otherwise the tare value of the channel stays as it was.  No
\* call of start() or update() changes the tare value of the other channel.
TareCapture ==
    [][LET lc == fsm.loadcell
           lc2 == fsm'.loadcell
           finishes == Loadcell_is_busy(lc) /\ ~Loadcell_is_busy(lc2)
           captures == \/ lc.apply_tare
                       \/ ChannelTare(lc, lc.sensor) = INT32_MIN
       IN  /\ finishes /\ captures =>
                 /\ ChannelTare(lc2, lc.sensor) = lc2.mean_raw
                 /\ lc2.mean = 0
           /\ finishes /\ ~captures =>
                 /\ ChannelTare(lc2, lc.sensor) = ChannelTare(lc, lc.sensor)
                 /\ lc2.mean = (lc2.mean_raw - ChannelTare(lc, lc.sensor))
                                   * (IF lc.sensor = "RESERVOIR"
                                      THEN GAIN_RESERVOIR ELSE GAIN_BOWL)
           /\ last_call'.name \in {"start", "update"} =>
                 ChannelTare(lc2, OtherSensor(lc2.sensor))
                     = ChannelTare(lc, OtherSensor(lc2.sensor))]_vars

\* The first session ever, started without apply_tare on a channel that had
\* no tare value, has completed and has captured the tare value.
FirstSessionCapturedTare ==
    /\ budget = MaxSamplerCalls - 1
    /\ last_call.name = "update"
    /\ pc.n = NUM_SAMPLES
    /\ ~Loadcell_is_busy(fsm.loadcell)
    /\ ~fsm.loadcell.apply_tare
    /\ ChannelTare(fsm.loadcell, fsm.loadcell.sensor) = fsm.loadcell.mean_raw
    /\ ChannelTare(fsm.loadcell, OtherSensor(fsm.loadcell.sensor)) = INT32_MIN
    /\ fsm.loadcell.mean = 0

\* C20: the sampler's statistics for a constant input.  When a session
\* whose readings all were the same raw value r completes, mean_raw is r,
\* the standard deviation is 0 and the mean in grams is (r - tare) x gain,
\* whatever the sign of r.
ConstantInputStatistics ==
    [][LET lc == fsm.loadcell
           lc2 == fsm'.loadcell
           finishes == Loadcell_is_busy(lc) /\ ~Loadcell_is_busy(lc2)
       IN  finishes /\ hx711.noise = 0 =>
               /\ lc2.mean_raw = hx711.level
               /\ lc2.stddev = 0
               /\ lc2.mean = (hx711.level - ChannelTare(lc2, lc.sensor))
                                 * (IF lc.sensor = "RESERVOIR"
                                    THEN GAIN_RESERVOIR ELSE GAIN_BOWL)]_vars

\* C24: every call of transition() sets millis_since_transition to 0, adds
\* one to state_retries if the new state is the current one and sets
\* state_retries to 0 if it is another one; state_retries changes in no
\* step other than one that calls transition(), except that reset() leaves
\* it at 0.
TransitionBookkeeping ==
    [][/\ \A new_state \in States :
             LET t == transition(fsm, new_state)
             IN  /\ t.millis_since_transition = 0
                 /\ t.state = new_state
                 /\ t.state_retries = IF new_state = fsm.state
                                      THEN fsm.state_retries + 1 ELSE 0
       /\ fsm'.state # fsm.state =>
             /\ fsm'.millis_since_transition = 0
             /\ fsm'.state_retries = 0
       /\ fsm'.state_retries # fsm.state_retries =>
             \/ last_call'.name = "reset" /\ fsm'.state_retries = 0
             \/ /\ fsm'.millis_since_transition = 0
                /\ fsm'.state_retries = IF fsm'.state = fsm.state
                                        THEN fsm.state_retries + 1 ELSE 0]_vars

\* A weighing of a feed cycle has just been entered again after a retry.
WeighingEnteredAgain ==
    /\ fsm.state \in FeedMeasureStates
    /\ fsm.state = last_call.state
    /\ last_call.name = "update"
    /\ fsm.state_retries > 1
    /\ fsm.millis_since_transition = 0

\* The call of update() that is about to be made gives a weighing of a
\* feed cycle its completed measurement: no limp flag is set and the
\* session gets its last sample.
MeasurementCompletes ==
    /\ fsm.state \in FeedMeasureStates
    /\ ~limp(fsm)
    /\ fsm.loadcell.samples_remaining = 1
    /\ hx711.alive

\* The state that follows a weighing state in a feed cycle.
NextStep(st) ==
    CASE st = "FEED_PRE_MEASURE_RESERVOIR" -> "FEED_PRE_MEASURE_BOWL"
      [] st = "FEED_PRE_MEASURE_BOWL" -> "FEED_RUN_SYNC"
      [] st = "FEED_POST_MEASURE_BOWL" -> "FEED_POST_MEASURE_RESERVOIR"
      [] st = "FEED_POST_MEASURE_RESERVOIR" -> "IDLE"

\* The weight that the weighing state st records in the object s.
WeightOf(s, st) ==
    CASE st = "FEED_PRE_MEASURE_RESERVOIR" -> s.feed_reservoir_pre
      [] st = "FEED_PRE_MEASURE_BOWL" -> s.feed_bowl_pre
      [] st = "FEED_POST_MEASURE_BOWL" -> s.feed_bowl_post
      [] st = "FEED_POST_MEASURE_RESERVOIR" -> s.feed_reservoir_post

\* The noise flag of the load cell that the weighing state st reads.
NoiseFlagOf(s, st) ==
    IF st \in {"FEED_PRE_MEASURE_BOWL", "FEED_POST_MEASURE_BOWL"}
    THEN s.error_bowl_stddev ELSE s.error_reservoir_stddev

\* C30: a weighing of a feed cycle accepts a completed measurement, and
\* the cycle moves on with the weight, exactly when the standard deviation
\* is below 1.0 g.  On a noisy measurement the state is entered again, with
\* a new sampling session and the time in the state back at 0, exactly
\* when state_retries is below 5; state_retries never exceeds 5 in a
\* weighing state, which makes at most 6 measurements in one weighing.
NoisyWeighingRetries ==
    [][/\ fsm'.state \in FeedMeasureStates =>
              fsm'.state_retries <= STATE_MAX_RETRIES
       /\ (last_call'.name = "update" /\ MeasurementCompletes
           /\ ~fsm'.error_loadcell_timeout) =>
             LET stddev == fsm'.loadcell.stddev
                 again == /\ fsm'.state = fsm.state
                          /\ fsm'.state_retries = fsm.state_retries + 1
                          /\ fsm'.millis_since_transition = 0
                          /\ fsm'.loadcell.samples_remaining = NUM_SAMPLES
             IN  /\ stddev < STDDEV_LIMIT =>
                       /\ fsm'.state = NextStep(fsm.state)
                       /\ WeightOf(fsm', fsm.state) = fsm'.loadcell.mean
                       /\ NoiseFlagOf(fsm', fsm.state)
                              = NoiseFlagOf(fsm, fsm.state)
                 /\ stddev >= STDDEV_LIMIT =>
                       /\ WeightOf(fsm', fsm.state) = WeightOf(fsm, fsm.state)
                       /\ again <=> fsm.state_retries < STATE_MAX_RETRIES
                       /\ ~again =>
                             \/ /\ fsm'.state = NextStep(fsm.state)
                                /\ NoiseFlagOf(fsm', fsm.state)
                             \/ /\ fsm.state \in PreMeasureStates
                                /\ fsm'.state = "IDLE"]_vars

\* The sixth measurement in a row of the bowl after the motor run was noisy
\* again: the noise flag is set and the cycle has moved on.
SixthMeasurementNoisy ==
    /\ last_call.name = "update"
    /\ last_call.state = "FEED_POST_MEASURE_BOWL"
    /\ fsm.state = "FEED_POST_MEASURE_RESERVOIR"
    /\ fsm.loadcell.stddev >= STDDEV_LIMIT
    /\ fsm.error_bowl_stddev
    /\ ~fsm.error_loadcell_timeout

\* One of the flags that put the load cells in limp mode is set in s.
SensorFlagSet(s) ==
    \/ s.error_loadcell_timeout
    \/ s.error_reservoir_stddev
    \/ s.error_bowl_stddev
    \/ s.error_loadcell_disagree
    \/ s.error_loadcell_unreasonable

\* C28: a call of update() that finds the object in a weighing state of a
\* feed cycle with a sensor limp flag set takes no reading into any of the
\* four weights of the cycle, sets the noise flag of the load cell of that
\* state, and takes the cycle to its next step in that call.
SensorLimpSkipsWeighing ==
    [][(/\ last_call'.name = "update"
        /\ fsm.state \in FeedMeasureStates
        /\ SensorFlagSet(fsm)) =>
            /\ fsm'.state = NextStep(fsm.state)
            /\ NoiseFlagOf(fsm', fsm.state)
            /\ \A st \in FeedMeasureStates :
                   WeightOf(fsm', st) = WeightOf(fsm, st)]_vars

\* The weighing of the reservoir before the motor run was skipped in a cycle
\* that followed one in which the two load cells disagreed.
WeighingSkippedAfterDisagree ==
    /\ last_call.name = "update"
    /\ last_call.state = "FEED_PRE_MEASURE_RESERVOIR"
    /\ fsm.state = "FEED_PRE_MEASURE_BOWL"
    /\ fsm.error_loadcell_disagree
    /\ fsm.error_reservoir_stddev
    /\ ~fsm.error_loadcell_timeout

\* The states of a feed cycle, and the changes of state within a cycle in
\* the order of the cases of update().
CycleStates == States \ {"IDLE", "IDLE_TARE_RESERVOIR_WAIT",
                         "IDLE_TARE_RESERVOIR", "IDLE_TARE_BOWL",
                         "IDLE_MEASURE_RESERVOIR", "IDLE_MEASURE_BOWL"}

CycleOrder ==
    {<<"FEED_PRE_MEASURE_WAIT", "FEED_PRE_MEASURE_RESERVOIR">>,
     <<"FEED_PRE_MEASURE_RESERVOIR", "FEED_PRE_MEASURE_BOWL">>,
     <<"FEED_PRE_MEASURE_BOWL", "FEED_RUN_SYNC">>,
     <<"FEED_RUN_SYNC", "FEED_RUN_A">>,
     <<"FEED_RUN_A", "FEED_RUN_B">>,
     <<"FEED_RUN_B", "FEED_RUN_C">>,
     <<"FEED_RUN_SYNC", "FEED_POST_WAIT">>,
     <<"FEED_RUN_A", "FEED_POST_WAIT">>,
     <<"FEED_RUN_B", "FEED_POST_WAIT">>,
     <<"FEED_RUN_C", "FEED_POST_WAIT">>,
     <<"FEED_POST_WAIT", "FEED_POST_MEASURE_BOWL">>,
     <<"FEED_POST_MEASURE_BOWL", "FEED_POST_MEASURE_RESERVOIR">>,
     <<"FEED_POST_MEASURE_RESERVOIR", "IDLE">>}

\* The early ends of a cycle.
CycleExits == {<<"FEED_PRE_MEASURE_RESERVOIR", "IDLE">>,
               <<"FEED_PRE_MEASURE_BOWL", "IDLE">>}

\* millis_since_transition as the switch of a call of update() sees it,
\* when the call is made with delta_millis on the object s.
TimeInState(s, delta_millis) ==
    SatAdd(s.millis_since_transition, delta_millis, TransCap)

\* C25: the order of a feed cycle.  A call of update() that finds the
\* object in a state of a feed cycle leaves it there or takes it to the
\* next state of the order FEED_PRE_MEASURE_WAIT, the two weighings before
\* the run, the run states, FEED_POST_WAIT, the two weighings after the
\* run, IDLE; it enters the same state again only in a weighing state, and
\* it ends the cycle early only from the two weighings before the run.
\* FEED_PRE_MEASURE_WAIT is left after at least 2000 ms and FEED_POST_WAIT
\* after at least 800 ms.  No step of any other kind enters a state of the
\* cycle behind FEED_PRE_MEASURE_WAIT, and the motor pin is on only after a
\* call that found the object in a run state.
FeedCycleOrder ==
    [][/\ (last_call'.name = "update" /\ fsm.state \in CycleStates) =>
             /\ \/ fsm'.state = fsm.state
                \/ <<fsm.state, fsm'.state>> \in CycleOrder \cup CycleExits
             /\ (fsm'.state = fsm.state
                 /\ fsm'.state_retries # fsm.state_retries) =>
                    fsm.state \in FeedMeasureStates
             /\ (fsm.state = "FEED_PRE_MEASURE_WAIT"
                 /\ fsm'.state # fsm.state) =>
                    TimeInState(fsm, last_call'.arg) >= SETTLE_MILLIS
             /\ (fsm.state = "FEED_POST_WAIT" /\ fsm'.state # fsm.state) =>
                    TimeInState(fsm, last_call'.arg) >= FEED_TO_MEASURE_MILLIS
       /\ (fsm'.state \in CycleStates \ {"FEED_PRE_MEASURE_WAIT"}
           /\ fsm'.state # fsm.state) =>
             /\ last_call'.name = "update"
             /\ <<fsm.state, fsm'.state>> \in CycleOrder
       /\ pin_motor' /\ last_call'.name = "update" =>
             fsm.state \in RunStates]_vars

\* The weighings after the motor run have begun, in a cycle that measured
\* both weights before the run and waited for the bowl to settle.
PostWeighingBegun ==
    /\ last_call.name = "update"
    /\ last_call.state = "FEED_POST_WAIT"
    /\ last_call.arg >= FEED_TO_MEASURE_MILLIS
    /\ fsm.state = "FEED_POST_MEASURE_BOWL"
    /\ fsm.feed_reservoir_pre # 0
    /\ fsm.feed_bowl_pre # 0
    /\ ~pin_motor

\* The run states that wait for the limit switch, and what each waits for.
SwitchStates == {"FEED_RUN_SYNC", "FEED_RUN_A", "FEED_RUN_B"}

Awaited(st) == st = "FEED_RUN_A"

\* The place of a state in a feed cycle.
CyclePlace(st) ==
    CASE st = "FEED_PRE_MEASURE_WAIT" -> 0
      [] st = "FEED_PRE_MEASURE_RESERVOIR" -> 1
      [] st = "FEED_PRE_MEASURE_BOWL" -> 2
      [] st = "FEED_RUN_SYNC" -> 3
      [] st = "FEED_RUN_A" -> 4
      [] st = "FEED_RUN_B" -> 5
      [] st = "FEED_RUN_C" -> 6
      [] st = "FEED_POST_WAIT" -> 7
      [] st = "FEED_POST_MEASURE_BOWL" -> 8
      [] st = "FEED_POST_MEASURE_RESERVOIR" -> 9
      [] OTHER -> 10

\* How far the object s is into its feed cycle: the place of its state,
\* then the number of times the state was entered again, then the samples
\* taken and the time passed since the state was entered.  The time in a
\* state is at most TransCap and a state is entered again at most
\* STATE_MAX_RETRIES times, so the value is below 11 * 200000.
CycleProgress(s) ==
    CyclePlace(s.state) * 200000
        + s.state_retries * 20000
        + (NUM_SAMPLES - s.loadcell.samples_remaining)
        + s.millis_since_transition

\* The step is a call of update() in a feed cycle, and takes the cycle
\* further: to a later state, into the same state once more, or on within
\* the state by a sample or by the time that has passed.
CycleAdvances ==
    /\ fsm.state_retries <= STATE_MAX_RETRIES
    /\ fsm.millis_since_transition <= TransCap
    /\ CycleProgress(fsm') > CycleProgress(fsm)

\* A call of update() made now, in a feed cycle, changes the object.
CallHasEffect ==
    \A limit \in Limits(hw, fsm.state) :
        \A delta_millis \in MotorElapsed(fsm, hx711, limit) :
            update(fsm, delta_millis, HX711_is_ready(hx711), hx711,
                   limit).fsm # fsm

\* The states of a feed cycle behind the motor run.
PostStates == {"FEED_POST_WAIT", "FEED_POST_MEASURE_BOWL",
               "FEED_POST_MEASURE_RESERVOIR"}

\* C21: the motor timeout.  A call of update() that finds the object in
\* FEED_RUN_SYNC (without the limit switch flag), FEED_RUN_A or FEED_RUN_B
\* for FEED_RUN_TIMEOUT_MILLIS or longer, and does not read the level the
\* state waits for, sets error_limit_switch and takes the cycle to
\* FEED_POST_WAIT.  From there on, with the flag set and no command, every
\* call of update() takes the cycle further, the flag stays set, and the
\* cycle leaves the states behind the run only for Idle, in the call that
\* records a SUCCESS feed report.
MotorTimeoutFailOpen ==
    [][/\ (/\ last_call'.name = "update"
           /\ fsm.state \in SwitchStates
           /\ ~fsm.error_limit_switch
           /\ TimeInState(fsm, last_call'.arg) >= FEED_RUN_TIMEOUT_MILLIS
           /\ limit_seen'.level # Awaited(fsm.state)) =>
               /\ fsm'.error_limit_switch
               /\ fsm'.state = "FEED_POST_WAIT"
               /\ fsm'.feed_report = fsm.feed_report
       /\ (/\ last_call'.name = "update"
           /\ fsm.state \in PostStates
           /\ fsm.error_limit_switch) =>
               /\ CallHasEffect
               /\ CycleAdvances
               /\ fsm'.error_limit_switch
               /\ fsm'.state \in PostStates \cup {"IDLE"}
               /\ fsm'.state = "IDLE" =>
                      /\ fsm.state = "FEED_POST_MEASURE_RESERVOIR"
                      /\ fsm'.feed_report.result = "SUCCESS"
               /\ fsm'.state # "IDLE" =>
                      fsm'.feed_report = fsm.feed_report]_vars

\* A cycle in which FEED_RUN_B timed out has ended with a SUCCESS feed
\* report.
TimedOutCycleSucceeded ==
    /\ last_call.name = "update"
    /\ last_call.state = "FEED_POST_MEASURE_RESERVOIR"
    /\ fsm.state = "IDLE"
    /\ fsm.error_limit_switch
    /\ hw = "switch"
    /\ fsm.feed_bowl_pre # 0
    /\ fsm.feed_report.result = "SUCCESS"

\* C22: the motor in limp mode.  While error_limit_switch is set the
\* object is in none of FEED_RUN_A, FEED_RUN_B and FEED_RUN_C.  A call of
\* update() that finds it in FEED_RUN_SYNC with the flag set drives the
\* motor, and takes the cycle to FEED_POST_WAIT exactly when more than
\* FEED_RUN_LIMP_MILLIS have passed in the state, whatever PIN_LIMIT reads.
MotorLimpRun ==
    [][/\ fsm'.error_limit_switch =>
             fsm'.state \notin {"FEED_RUN_A", "FEED_RUN_B", "FEED_RUN_C"}
       /\ (/\ last_call'.name = "update"
           /\ fsm.state = "FEED_RUN_SYNC"
           /\ fsm.error_limit_switch) =>
              /\ pin_motor'
              /\ fsm'.error_limit_switch
              /\ fsm'.state =
                     IF TimeInState(fsm, last_call'.arg) > FEED_RUN_LIMP_MILLIS
                     THEN "FEED_POST_WAIT" ELSE "FEED_RUN_SYNC"]_vars

\* A run in limp mode has ended while the limit switch read released, which
\* ends FEED_RUN_SYNC at once when the flag is not set.
LimpRunEnded ==
    /\ last_call.name = "update"
    /\ last_call.state = "FEED_RUN_SYNC"
    /\ ~limit_seen.level
    /\ fsm.state = "FEED_POST_WAIT"
    /\ fsm.error_limit_switch
    /\ pin_motor

\* C26: FEED_RUN_SYNC without the limit switch flag.  A call of update()
\* that reads PIN_LIMIT released takes the cycle to FEED_RUN_A in that call;
\* one that reads it asserted leaves the cycle in FEED_RUN_SYNC while less
\* than FEED_RUN_TIMEOUT_MILLIS have passed in the state, and otherwise
\* sets error_limit_switch and takes the cycle to FEED_POST_WAIT, past
\* FEED_RUN_A, FEED_RUN_B and FEED_RUN_C.  The motor is on in every case.
FeedRunSyncNoFault ==
    [][(/\ last_call'.name = "update"
        /\ fsm.state = "FEED_RUN_SYNC"
        /\ ~fsm.error_limit_switch) =>
           /\ pin_motor'
           /\ ~limit_seen'.level =>
                  /\ fsm'.state = "FEED_RUN_A"
                  /\ ~fsm'.error_limit_switch
           /\ (/\ limit_seen'.level
               /\ TimeInState(fsm, last_call'.arg) < FEED_RUN_TIMEOUT_MILLIS) =>
                  /\ fsm'.state = "FEED_RUN_SYNC"
                  /\ ~fsm'.error_limit_switch
           /\ (/\ limit_seen'.level
               /\ TimeInState(fsm, last_call'.arg) >= FEED_RUN_TIMEOUT_MILLIS) =>
                  /\ fsm'.state = "FEED_POST_WAIT"
                  /\ fsm'.error_limit_switch]_vars

\* C26 as stated: without the flag, FEED_RUN_SYNC is left for FEED_RUN_A,
\* after the timeout as well.
SyncLeavesForRunA ==
    [][(/\ last_call'.name = "update"
        /\ fsm.state = "FEED_RUN_SYNC"
        /\ ~fsm.error_limit_switch
        /\ fsm'.state # "FEED_RUN_SYNC") =>
           fsm'.state = "FEED_RUN_A"]_vars

\* The cycle waits in FEED_RUN_SYNC without the flag, the limit switch read
\* asserted in every call since the state was entered, for longer than an
\* open loop run takes.
SyncWaitsOnAssertedSwitch ==
    /\ last_call.name = "update"
    /\ last_call.state = "FEED_RUN_SYNC"
    /\ fsm.state = "FEED_RUN_SYNC"
    /\ ~fsm.error_limit_switch
    /\ limit_seen.level
    /\ fsm.millis_since_transition >= FEED_RUN_LIMP_MILLIS
    /\ pin_motor

\* C27: the 50 ms of FEED_RUN_A and FEED_RUN_B count from the entry into
\* the state.  A call of update() takes the cycle from FEED_RUN_A to
\* FEED_RUN_B exactly when it reads PIN_LIMIT asserted and more than
\* DEBOUNCE_MILLIS have passed since FEED_RUN_A was entered, and from
\* FEED_RUN_B to FEED_RUN_C exactly when it reads PIN_LIMIT released and
\* more than DEBOUNCE_MILLIS have passed since FEED_RUN_B was entered; what
\* earlier calls read plays no part.
LimitSwitchBlanking ==
    [][(/\ last_call'.name = "update"
        /\ fsm.state \in DebouncedStates) =>
           LET late == TimeInState(fsm, last_call'.arg) > DEBOUNCE_MILLIS
               awaited == limit_seen'.level = Awaited(fsm.state)
               next == IF fsm.state = "FEED_RUN_A" THEN "FEED_RUN_B"
                                                   ELSE "FEED_RUN_C"
           IN  /\ fsm'.state = next <=> (awaited /\ late)
               /\ fsm'.state \in {fsm.state, next, "FEED_POST_WAIT"}]_vars

\* C27 as stated: when FEED_RUN_A or FEED_RUN_B is left for the next run
\* state, every call of the last DEBOUNCE_MILLIS read the awaited level.
LimitSwitchDebounced ==
    [][(/\ last_call'.name = "update"
        /\ fsm.state \in DebouncedStates
        /\ fsm'.state \in {"FEED_RUN_B", "FEED_RUN_C"}
        /\ fsm'.state # fsm.state) =>
           /\ limit_seen'.level = Awaited(fsm.state)
           /\ limit_seen'.ms >= DEBOUNCE_MILLIS]_vars

\* FEED_RUN_A was left for FEED_RUN_B by a call that read the switch
\* asserted less than DEBOUNCE_MILLIS after a call that read it released.
RunALeftOnFirstAssertedRead ==
    /\ last_call.name = "update"
    /\ last_call.state = "FEED_RUN_A"
    /\ fsm.state = "FEED_RUN_B"
    /\ limit_seen.level
    /\ limit_seen.ms < DEBOUNCE_MILLIS

\* C23: a load cell timeout in a feed cycle.  The call of update() that
\* sets error_loadcell_timeout in a weighing state does not abort the cycle:
\* the object is in Idle afterwards only if that call ended the last
\* weighing and recorded a SUCCESS feed report with the nominal weight, and
\* no other feed report is written.
SensorTimeoutKeepsCycle ==
    [][(/\ last_call'.name = "update"
        /\ fsm.state \in CycleStates
        /\ ~fsm.error_loadcell_timeout
        /\ fsm'.error_loadcell_timeout) =>
           /\ fsm'.state \in CycleStates \cup {"IDLE"}
           /\ fsm'.state = "IDLE" =>
                  /\ fsm.state = "FEED_POST_MEASURE_RESERVOIR"
                  /\ fsm'.feed_report =
                         [result |-> "SUCCESS",
                          arg |-> FEED_ASSUMED_WEIGHT_GRAMS \div 1000]
           /\ fsm'.state # "IDLE" => fsm'.feed_report = fsm.feed_report]_vars

\* C29: no way out of a feed cycle behind the weighings before the run.
\* Every call of update() that finds the object in a run state or behind
\* it changes the object and takes the cycle further, to a run state, a
\* state behind the run or Idle.  It takes the cycle to Idle only from
\* FEED_POST_MEASURE_RESERVOIR, with a SUCCESS feed report whose weight is
\* taken off the deficit, and otherwise leaves the feed report alone, so
\* that no SENSOR_RETRY report is written.  A weighing behind the run whose
\* sixth measurement is noisy sets the noise flag of its load cell and
\* moves on.
PostFeedNoAbort ==
    [][(/\ last_call'.name = "update"
        /\ fsm.state \in RunStates \cup PostStates) =>
           /\ CallHasEffect
           /\ CycleAdvances
           /\ fsm'.state \in RunStates \cup PostStates \cup {"IDLE"}
           /\ fsm'.state = "IDLE" =>
                  /\ fsm.state = "FEED_POST_MEASURE_RESERVOIR"
                  /\ fsm'.feed_report.result = "SUCCESS"
                  /\ fsm'.deficit_mg =
                         update_deficit(fsm, last_call'.arg).deficit_mg
                             - fsm'.feed_report.arg
                  /\ fsm'.millis_since_feed_attempt = 0
           /\ fsm'.state # "IDLE" =>
                  /\ fsm'.feed_report = fsm.feed_report
                  /\ fsm'.feed_sensor_retries = fsm.feed_sensor_retries
           /\ (/\ MeasurementCompletes
               /\ ~fsm'.error_loadcell_timeout
               /\ fsm'.loadcell.stddev >= STDDEV_LIMIT
               /\ fsm.state_retries = STATE_MAX_RETRIES) =>
                  /\ NoiseFlagOf(fsm', fsm.state)
                  /\ fsm'.state = NextStep(fsm.state)]_vars

\* Six noisy measurements of the bowl behind the run have set the noise
\* flag of the bowl, and the cycle has ended with a SUCCESS feed report.
NoisyPostWeighingCompleted ==
    /\ last_call.name = "update"
    /\ last_call.state = "FEED_POST_MEASURE_RESERVOIR"
    /\ fsm.state = "IDLE"
    /\ hw = "noisy"
    /\ fsm.error_bowl_stddev
    /\ fsm.feed_bowl_pre # 0
    /\ fsm.feed_bowl_post = 0
    /\ ~fsm.error_loadcell_timeout
    /\ ~fsm.error_limit_switch
    /\ fsm.feed_report.result = "SUCCESS"

\* C31: one step of the deficit accrual.  update() first takes delta_millis
\* off deficit_ms_remain; every iteration of the loop that follows finds
\* deficit_ms_remain negative, adds 1 to deficit_mg and adds
\* 86400 / grams_per_day (integer division) to deficit_ms_remain; the loop
\* is left only with deficit_ms_remain at 0 or above.
AccrualStep ==
    [][/\ (pc.at = "main" /\ pc'.at = "loop") =>
              /\ fsm'.deficit_ms_remain =
                     fsm.deficit_ms_remain - pc'.delta_millis
              /\ fsm'.deficit_mg = fsm.deficit_mg
       /\ (pc.at = "loop" /\ pc'.at = "loop") =>
              /\ fsm.deficit_ms_remain < 0
              /\ fsm'.deficit_mg = fsm.deficit_mg + 1
              /\ fsm'.deficit_ms_remain =
                     fsm.deficit_ms_remain
                         + TruncDiv(86400, fsm.grams_per_day)
       /\ (pc.at = "loop" /\ pc'.at = "main") =>
              /\ fsm.deficit_ms_remain >= 0
              /\ fsm'.deficit_ms_remain = fsm.deficit_ms_remain]_vars

\* C31 as stated: an iteration of the loop adds 86400000 / grams_per_day
\* to deficit_ms_remain.
AccrualStepPerGram ==
    [][(pc.at = "loop" /\ pc'.at = "loop") =>
           /\ fsm.deficit_ms_remain < 0
           /\ fsm'.deficit_mg = fsm.deficit_mg + 1
           /\ fsm'.deficit_ms_remain =
                  fsm.deficit_ms_remain
                      + TruncDiv(86400000, fsm.grams_per_day)]_vars

\* The loop has made one iteration at 60 g a day: a call with
\* delta_millis = 1 took the countdown from 0 to -1, and the iteration has
\* added 1440 to it.
LoopAddedPeriod ==
    /\ pc.at = "loop"
    /\ pc.n = 1
    /\ pc.delta_millis = 1
    /\ fsm.grams_per_day = 60
    /\ fsm.deficit_ms_remain = 1439
    /\ fsm.deficit_mg >= 1

\* The deficit that accrues in millis milliseconds from begin() at
\* grams_per_day grams a day: one milligram at the start of every period
\* of 86400 / grams_per_day milliseconds.
Accrued(grams_per_day, millis) ==
    LET period == 86400 \div grams_per_day
    IN  (millis + period - 1) \div period

\* C32: the deficit does not depend on the ticks.  With grams_per_day
\* fixed and no feed, the deficit after calls of update() whose
\* delta_millis add up to T is the same however T is split, one milligram
\* for every period begun; after 86,400,000 ms it is 1000 times
\* grams_per_day when grams_per_day divides 86400, and more otherwise.
DripIndependentOfTicks ==
    LET g == fsm.grams_per_day
        T == since_end.ms
    IN  (last_call.name = "update" /\ fsm.maintenance_mode = "MAINTENANCE"
         /\ since_end.how = "none") =>
           /\ fsm.deficit_mg = Accrued(g, T)
           /\ fsm.deficit_ms_remain
                  = Accrued(g, T) * (86400 \div g) - T
           /\ T = 86400000 =>
                  /\ fsm.deficit_mg >= 1000 * g
                  /\ fsm.deficit_mg = 1000 * g <=> 86400 % g = 0

\* A day has passed at 150 g a day, in calls of update() the last of
\* which came 1 ms after the one before, and the deficit stands at
\* 150000 mg.
DayInSeveralTicks ==
    /\ last_call.name = "update"
    /\ last_call.arg = 1
    /\ since_end.ms = 86400000
    /\ fsm.grams_per_day = 150
    /\ fsm.deficit_mg = 150000

\* The state in which the load cell `sensor` is read between feeds.
IdleMeasureOf(sensor) ==
    IF sensor = "RESERVOIR" THEN "IDLE_MEASURE_RESERVOIR"
                            ELSE "IDLE_MEASURE_BOWL"

\* The time since the load cell `sensor` was last read.
SinceRead(s, sensor) ==
    IF sensor = "RESERVOIR" THEN s.millis_since_reservoir_read
                            ELSE s.millis_since_bowl_read

\* C33: the sensor refresh in Idle.  A call of update() that finds the
\* object in IDLE and starts no feed looks at the load cell that has gone
\* longer without a reading, the bowl on a tie, and starts a measurement of
\* it (without taring) exactly when its time since the last reading, this
\* call's delta_millis included, is above the cooldown: 5 minutes, and 0 in
\* MAINTENANCE.  A call that ends a measurement between feeds with the
\* session completed and no load cell timeout sets that load cell's time
\* since the last reading to 0 and leaves the other one's running, so that
\* the other load cell has then gone at least as long without a reading.
IdleSensorRefresh ==
    [][/\ (/\ last_call'.name = "update"
           /\ fsm.state = "IDLE"
           /\ fsm'.state # "FEED_PRE_MEASURE_WAIT") =>
              LET t == update_timers(fsm, last_call'.arg)
                  sensor == IF SinceRead(t, "RESERVOIR") > SinceRead(t, "BOWL")
                            THEN "RESERVOIR" ELSE "BOWL"
                  cooldown == IF fsm.maintenance_mode = "MAINTENANCE"
                              THEN 0 ELSE 5 * 60 * 1000
              IN  IF SinceRead(t, sensor) > cooldown
                  THEN /\ fsm'.state = IdleMeasureOf(sensor)
                       /\ fsm'.loadcell.sensor = sensor
                       /\ fsm'.loadcell.samples_remaining = NUM_SAMPLES
                       /\ ~fsm'.loadcell.apply_tare
                  ELSE /\ fsm'.state = "IDLE"
                       /\ fsm'.loadcell.sensor = fsm.loadcell.sensor
       /\ \A sensor \in {"RESERVOIR", "BOWL"} :
           (/\ last_call'.name = "update"
            /\ fsm.state = IdleMeasureOf(sensor)
            /\ fsm'.state = "IDLE"
            /\ ~fsm'.error_loadcell_timeout) =>
               LET t == update_timers(fsm, last_call'.arg)
               IN  /\ fsm.loadcell.samples_remaining <= 1
                   /\ SinceRead(fsm', sensor) = 0
                   /\ SinceRead(fsm', OtherSensor(sensor))
                          = SinceRead(t, OtherSensor(sensor))]_vars

\* The reservoir has been read between feeds, after the bowl: the bowl's
\* time since its reading runs, and the reservoir's is back at 0.
RefreshAlternated ==
    /\ last_call.name = "update"
    /\ last_call.state = "IDLE_MEASURE_RESERVOIR"
    /\ fsm.state = "IDLE"
    /\ ~fsm.error_loadcell_timeout
    /\ fsm.millis_since_reservoir_read = 0
    /\ fsm.millis_since_bowl_read > 0
    /\ fsm.millis_since_bowl_read < SENSOR_READ_COOLDOWN

\* C34: the time delta across the wrap of millis().  The delta_millis that
\* a call of update() works with is the time that has passed since the
\* call before, also when millis() has wrapped in between; the call leaves
\* the object as the call with that delta_millis leaves it, timers and
\* countdown included, and remembers the value of millis().
WrapSafeDelta ==
    [][last_call'.name = "update" =>
          /\ last_call'.arg = clock'.passed
          /\ fsm'.update_prev_millis = clock'.millis
          /\ \E limit \in Limits(hw, fsm.state) :
                LET u == update(fsm, clock'.passed, HX711_is_ready(hx711),
                                hx711, limit)
                IN  fsm' = [u.fsm EXCEPT
                               !.update_prev_millis = clock'.millis]
          /\ ~Completes(fsm, fsm') =>
                 fsm'.deficit_ms_remain - (86400 \div fsm.grams_per_day)
                     * (fsm'.deficit_mg - fsm.deficit_mg)
                     = fsm.deficit_ms_remain - clock'.passed
          /\ fsm'.millis_since_feed_attempt
                 \in {0, SatAdd(fsm.millis_since_feed_attempt,
                                clock'.passed, FeedCap)}
          /\ fsm'.millis_since_transition
                 \in {0, SatAdd(fsm.millis_since_transition,
                                clock'.passed, TransCap)}]_vars

\* millis() wrapped between the last two calls of update(): it reads less
\* than the 536 ms that have passed since the call before.
TickSpannedWrap ==
    /\ last_call.name = "update"
    /\ clock.passed = 536
    /\ clock.millis.hi = 0
    /\ clock.millis.lo < 536
    /\ last_call.arg = 536
    /\ fsm.update_prev_millis = clock.millis

\* The object as update() holds it when the case of its state begins, in
\* a call made after delta_millis with the HX711 in the state sig.
AtDispatch(s, delta_millis, sig) ==
    update_timers(accrue_loop(update_enter(s, delta_millis,
                                           HX711_is_ready(sig), sig)),
                  delta_millis)

\* C35: what the abort of a feed cycle changes.  In a call of update()
\* that gives up the cycle in a weighing before the run, the abort sets
\* millis_since_feed_attempt to 0, adds 1 to feed_sensor_retries, writes
\* the SENSOR_RETRY feed report and makes the transition to IDLE, and
\* changes nothing else of the object that handle_loadcell_readout() has
\* left: deficit_mg stays as accrued in this call, and feed_jammed_retries,
\* maintenance_mode and the error flags stay as they are.
AbortFrame ==
    [][(last_call'.name = "update" /\ Aborts(fsm, fsm')) =>
          LET before == handle_loadcell_readout(
                            AtDispatch(fsm, last_call'.arg, hx711)).fsm
          IN  /\ fsm' = [before EXCEPT
                            !.millis_since_feed_attempt = 0,
                            !.feed_sensor_retries = @ + 1,
                            !.feed_report = [result |-> "SENSOR_RETRY",
                                             arg |-> fsm.feed_sensor_retries + 1],
                            !.state = "IDLE",
                            !.state_retries = 0,
                            !.millis_since_transition = 0]
              /\ fsm'.deficit_mg
                     = update_deficit(fsm, last_call'.arg).deficit_mg
              /\ fsm'.feed_jammed_retries = fsm.feed_jammed_retries
              /\ fsm'.maintenance_mode = fsm.maintenance_mode
              /\ \A f \in ErrorFlagNames \ {"error_loadcell_timeout"} :
                     fsm'[f] = fsm[f]
              /\ fsm'.error_loadcell_timeout = before.error_loadcell_timeout
              /\ fsm'.loadcell = before.loadcell]_vars

\* A feed cycle was given up with feeds at or below the jam weight counted
\* and the power loss flag set: the counter and the flag are as they were.
AbortedWithJamCount ==
    /\ last_call.name = "update"
    /\ last_call.state \in PreMeasureStates
    /\ fsm.state = "IDLE"
    /\ fsm.feed_report.result = "SENSOR_RETRY"
    /\ fsm.feed_jammed_retries > 0
    /\ fsm.error_power_loss
    /\ fsm.deficit_mg # 0

\* C36: the motor output is never high without a break for longer than the
\* three timed phases and the trailing phase of the run and five times the
\* longest tick of the run (the time between two calls of update() while
\* the output is high): one tick late for each of the four phases, and one
\* tick more, because PIN_MOTOR is written low only by the first call of
\* update() after the run state has been left.  A run that began in limp
\* mode lasts no longer than the limp time and two ticks.  This holds
\* whatever the limit switch reads and whichever commands are called between
\* two calls of update().
BoundedMotorRun ==
    /\ motor_on.ms <= 3 * FEED_RUN_TIMEOUT_MILLIS + FEED_RUN_POST_MILLIS
                         + 5 * motor_on.tick
    /\ motor_on.limp => motor_on.ms <= FEED_RUN_LIMP_MILLIS
                                           + 2 * motor_on.tick

\* C36 as the specification states it: one tick late for each phase, and
\* one tick late in limp mode.
BoundedMotorRunByPhases ==
    /\ motor_on.ms <= 3 * FEED_RUN_TIMEOUT_MILLIS + FEED_RUN_POST_MILLIS
                         + 4 * motor_on.tick
    /\ motor_on.limp => motor_on.ms <= FEED_RUN_LIMP_MILLIS + motor_on.tick

\* A limp run has ended: the pin is low again after having been high for
\* longer than the limp time.
LimpRunSwitchedOff ==
    /\ ~pin_motor
    /\ motor_on.limp
    /\ motor_on.ms > FEED_RUN_LIMP_MILLIS
    /\ last_call.name = "update"
    /\ last_call.state = "FEED_POST_WAIT"

\* C37: once MaintenanceMode is Maintenance, no call other than reset()
\* changes it: no call of update() and no feed() takes the object out of
\* Maintenance.
MaintenanceLeftOnlyByReset ==
    [][(fsm.maintenance_mode = "MAINTENANCE" /\ last_call'.name # "reset")
           => fsm'.maintenance_mode = "MAINTENANCE"]_vars

\* C38: when update() leaves IDLE_TARE_RESERVOIR or IDLE_TARE_BOWL while the
\* HX711 delivers readings, the session started with apply_tare on entry has
\* completed for the channel of the state, and the tare value of that
\* channel is the raw mean of the session, whatever error flags were set
\* when the tare command was called.
TareCommandTakesEffect ==
    [][(/\ last_call'.name = "update"
        /\ fsm.state \in {"IDLE_TARE_RESERVOIR", "IDLE_TARE_BOWL"}
        /\ fsm'.state # fsm.state
        /\ hx711.alive)
           => LET lc == fsm'.loadcell
                  sensor == IF fsm.state = "IDLE_TARE_RESERVOIR"
                            THEN "RESERVOIR" ELSE "BOWL"
              IN  /\ fsm'.state = "IDLE"
                  /\ lc.samples_remaining = 0
                  /\ lc.apply_tare
                  /\ lc.sensor = sensor
                  /\ ChannelTare(lc, sensor) = lc.mean_raw]_vars

\* C39: a feed that completes with a sensor limp flag set, whether the flag
\* was set before or is set by the estimate of this feed, is booked with the
\* nominal weight, resets the jam-retry counter to 0 and does not leave the
\* object Jammed; MaintenanceMode becomes Jammed only in a call of update()
\* that completes a feed with no sensor flag set, the third low feed in a row
\* at the least.
NoJamDetectionInLimp ==
    [][LET completes == last_call'.name = "update" /\ Completes(fsm, fsm')
       IN  /\ (completes /\ SensorFlagSet(fsm'))
                  => /\ fsm'.feed_report.arg
                            = GramsToMg(FEED_ASSUMED_WEIGHT_GRAMS)
                     /\ fsm'.feed_jammed_retries = 0
                     /\ fsm'.maintenance_mode # "JAMMED"
           /\ (fsm'.maintenance_mode = "JAMMED"
               /\ fsm.maintenance_mode # "JAMMED")
                  => /\ completes
                     /\ ~SensorFlagSet(fsm')
                     /\ low_streak' >= FEED_MAX_RETRIES]_vars

\* A feed has just completed with a sensor flag set although the reservoir
\* weighed the same before and after: the jam-retry counter is 0.
LimpFeedNotCountedAsJam ==
    /\ fsm.state = "IDLE"
    /\ last_call.name = "update"
    /\ last_call.state = "FEED_POST_MEASURE_RESERVOIR"
    /\ since_end = [ms |-> 0, how |-> "complete"]
    /\ SensorFlagSet(fsm)
    /\ fsm.feed_jammed_retries = 0
    /\ fsm.feed_reservoir_pre = fsm.feed_reservoir_post

\* C40: a call of update() that changes one of the four recorded feed
\* weights stores the mean of a session that has completed when the case of
\* the state begins, on the channel of that weight: feed_reservoir_pre and
\* feed_reservoir_post from the reservoir, feed_bowl_pre and feed_bowl_post
\* from the bowl.  (Every transition into a weighing state starts a new
\* session, so a session that is complete at that point was started on
\* entry to the state.)
RecordedWeightsFresh ==
    [][last_call'.name = "update"
           => LET lc == AtDispatch(fsm, last_call'.arg, hx711).loadcell
                  Stored(old, new, sensor) ==
                      new # old => /\ ~Loadcell_is_busy(lc)
                                   /\ lc.sensor = sensor
                                   /\ new = lc.mean
              IN  /\ Stored(fsm.feed_reservoir_pre, fsm'.feed_reservoir_pre,
                            "RESERVOIR")
                  /\ Stored(fsm.feed_reservoir_post,
                            fsm'.feed_reservoir_post, "RESERVOIR")
                  /\ Stored(fsm.feed_bowl_pre, fsm'.feed_bowl_pre, "BOWL")
                  /\ Stored(fsm.feed_bowl_post, fsm'.feed_bowl_post,
                            "BOWL")]_vars

====
